---- MODULE Spec2Model ----
(***************************************************************************)
(* Income aggregation and ranking of the sales-tracking dashboard:         *)
(* Dashboard.fetchDashboardData, TopPics.fetchRankings and                 *)
(* TopProducts.fetchRankings, applied to the rows the store returns.       *)
(*                                                                         *)
(* Amounts are integers (nett_gp is a bigint column); the achievement      *)
(* percentage, a JavaScript number, is kept as an exact reduced fraction.  *)
(***************************************************************************)
EXTENDS Integers, Sequences, FiniteSets, TLC

VARIABLES
    projectsTable,    \* rows of public.projects, in the order a select returns them
    page,             \* the mounted page component ("none" before any is mounted)
    selectedYear,     \* the mounted page's selectedYear state
    loading,          \* the mounted page's loading state
    projects,         \* the data of the page's last projects select that returned
                      \* rows: <<>> while there is none (null), else <<rows>>
    targetData,       \* Dashboard: the row the targets select returned with those
                      \* projects, <<>> for none (null) or <<row>>
    stats,            \* Dashboard: stats state
    topPics,          \* Dashboard: topPics state
    topProducts,      \* Dashboard: topProducts state
    picRankings,      \* TopPics: rankings state
    productRankings,  \* TopProducts: rankings state
    toast,            \* the toast last shown to the user: <<>> or <<[kind, text]>>
    disk,             \* ExcelUpload: the files the user can pick in the file input
    file,             \* ExcelUpload: file state, <<>> (null) or <<index into disk>>
    uploading,        \* ExcelUpload: uploading state
    errors,           \* ExcelUpload: errors state
    preview,          \* ExcelUpload: preview state
    parsing,          \* ExcelUpload: the files whose parseExcelFile has not resolved
    result,           \* ExcelUpload: the parse result handleFileChange applied last,
                      \* with the file it belongs to: <<>> or <<[of, value]>>
    uploadRequest,    \* ExcelUpload: the rows of the insert awaiting its answer,
                      \* <<>> or <<rows>>
    analysis,         \* Dashboard: analysis state
    analyzingData,    \* Dashboard: analyzingData state
    analysisCall,     \* Dashboard: the analyze-income call awaiting its answer,
                      \* <<>> or <<[replied, status]>>
    fetches,          \* Dashboard: the years of the fetchDashboardData calls that
                      \* have not returned yet, oldest first
    targetsTable,     \* rows of public.targets
    formData,         \* Targets: formData state
    existingTarget,   \* Targets: existingTarget state, <<>> (null) or <<row>>
    targetFetches,    \* Targets: the years of the fetchTarget calls that have not
                      \* returned yet, oldest first
    filteredProjects, \* Projects, Reports: filteredProjects state
    selectedQuarter,  \* Reports: quarter state
    selectedCategory, \* Reports: category state
    storeCall,        \* the insert, update or delete the last handler sent to the
                      \* store: <<>> or <<[op, ...]>>
    download,         \* Reports: the file the last exportToCSV produced, <<>> or <<csv>>
    profilesTable,    \* rows of public.profiles
    backupData,       \* BackupDatabase: backupData state, <<>> (null) or <<data>>
    isBackingUp,      \* BackupDatabase: isBackingUp state
    backupCall,       \* BackupDatabase: the backupDatabase call awaiting its answer,
                      \* <<>> or <<[step, ...]>>
    now,              \* the store's clock
    stamps            \* per table, the created_at and updated_at of its rows

\* The state of the Dashboard, TopPics and TopProducts pages.
pageVars == <<page, selectedYear, loading, projects, targetData, stats,
              topPics, topProducts, picRankings, productRankings>>

\* The state of the ExcelUpload component.
uploadVars == <<disk, file, uploading, errors, preview, parsing, result, uploadRequest>>

dashVars == <<analysis, analyzingData, analysisCall, fetches>>

targetVars == <<targetsTable, formData, existingTarget, targetFetches>>

reportVars == <<filteredProjects, selectedQuarter, selectedCategory>>

moreVars == <<download, profilesTable, backupData, isBackingUp, backupCall, now, stamps>>

restVars == <<dashVars, targetVars, reportVars, storeCall, moreVars>>

vars == <<projectsTable, toast, pageVars, uploadVars, restVars>>

----------------------------------------------------------------------------
(* Bounds and input sets *)

\* Largest number of rows in the projects table.
MaxRecords == 6

\* Tables of at most this many rows are returned in every order; larger ones
\* in ascending and in descending order of id.
MaxShuffled == 4

\* JavaScript null and undefined, as values of a nullable text field.
Null == "<null>"
Undefined == "<undefined>"

\* The values JavaScript's || treats as false among those a text field holds.
Falsy == {"", Null, Undefined}

QuarterLabels == <<"Q1", "Q2", "Q3", "Q4">>

\* The rows the table is filled from. Every row satisfies the table's
\* constraints (pic NOT NULL, category and quarter within their CHECK lists).
ProjectCatalog ==
    { [id |-> 1, pic |-> "Ani",   product |-> "NetApp",       nett_gp |-> 3, quarter |-> "Q1", category |-> "Implementation", year |-> 2025],
      [id |-> 2, pic |-> "Budi",  product |-> "Oracle",       nett_gp |-> 2, quarter |-> "Q2", category |-> "Maintenance",    year |-> 2025],
      [id |-> 3, pic |-> "Citra", product |-> "",             nett_gp |-> 1, quarter |-> "Q3", category |-> "LSC",            year |-> 2025],
      [id |-> 4, pic |-> "Dewi",  product |-> "Ruijie",       nett_gp |-> 2, quarter |-> "Q4", category |-> "Implementation", year |-> 2025],
      [id |-> 5, pic |-> "",      product |-> "Nakivo",       nett_gp |-> 1, quarter |-> "Q1", category |-> "Maintenance",    year |-> 2025],
      [id |-> 6, pic |-> "Eko",   product |-> "Huawei Cloud", nett_gp |-> 4, quarter |-> "Q2", category |-> "LSC",            year |-> 2025],
      [id |-> 7, pic |-> "Ani",   product |-> Null,           nett_gp |-> 2, quarter |-> "Q3", category |-> "Implementation", year |-> 2025],
      [id |-> 8, pic |-> "Ani",   product |-> Undefined,      nett_gp |-> 1, quarter |-> "Q1", category |-> "Maintenance",    year |-> 2026] }

\* The years the Dashboard's year selector is set to.
DashboardYears == {"2025", "2026"}

\* The values of selectedYear on the TopPics and TopProducts pages.
RankingYears == {"all", "2025"}

\* What the targets query (.maybeSingle()) returns: no row (<<>>, null) or one.
TargetResults ==
    { <<>>,
      <<[q1_target |-> 1, q2_target |-> 0, q3_target |-> 0, q4_target |-> 0, yearly_target |-> 0]>>,
      <<[q1_target |-> 2, q2_target |-> 1, q3_target |-> 0, q4_target |-> 3, yearly_target |-> 6]>> }

\* Sequences over S without repetition, of length at most n.
RECURSIVE InjectiveSeqs(_, _)
InjectiveSeqs(S, n) ==
    IF n = 0 THEN {<<>>}
    ELSE LET shorter == InjectiveSeqs(S, n - 1)
         IN shorter \cup
            { Append(s, x) : <<s, x>> \in
                { <<s, x>> \in shorter \X S :
                    Len(s) = n - 1 /\ \A i \in 1..Len(s) : s[i] # x } }

\* The rows of S in ascending (up = TRUE) or descending order of id.
OrderedById(S, up) ==
    LET rank(r) == Cardinality({ q \in S : IF up THEN q.id < r.id ELSE q.id > r.id })
    IN [i \in 1..Cardinality(S) |-> CHOOSE r \in S : rank(r) = i - 1]

\* The contents of the projects table, as a select returns them.
TableInputs ==
    InjectiveSeqs(ProjectCatalog, MaxShuffled) \cup
    { OrderedById(S, up) : <<S, up>> \in
        { T \in SUBSET ProjectCatalog :
            Cardinality(T) > MaxShuffled /\ Cardinality(T) <= MaxRecords } \X BOOLEAN }

----------------------------------------------------------------------------
(* JavaScript library operations used by the pages *)

\* Variant of OrElse that only replaces the empty string.
OrElse_emptyOnly(a, b) == IF a = "" THEN b ELSE a

\* a || b on text values.
OrElse(a, b) == IF a \in Falsy THEN b ELSE a

\* Number(v) of a bigint column value delivered as a JSON number.
Number(v) == v + 0

\* parseInt of the year selector's option values.
parseInt(str) ==
    CASE str = "2025" -> 2025
      [] str = "2026" -> 2026

\* new Date().getFullYear()
NowYear == 2026

\* Number.prototype.toString, on the years that occur.
toString(n) ==
    CASE n = 2025 -> "2025"
      [] n = 2026 -> "2026"
      [] n = 2027 -> "2027"

\* A sonner toast: toast.error(message) or toast.success(message).
Toast(kind, message, count) == [kind |-> kind, message |-> message, count |-> count]

\* The text of a sheet cell or of a form input that is read as a number:
\* empty, the text of a number, or text that is no number.
EmptyCell == [kind |-> "empty", value |-> 0]
NumberCell(n) == [kind |-> "number", value |-> n]
TextCell == [kind |-> "text", value |-> 0]

Min(a, b) == IF a < b THEN a ELSE b

\* A Map is the sequence of its entries [key, value] in insertion order.
MapHas(m, k) == \E i \in 1..Len(m) : m[i].key = k

MapGet(m, k) == m[CHOOSE i \in 1..Len(m) : m[i].key = k].value

\* Variant of MapSet that moves an existing key to the end.
MapSet_moveToEnd(m, k, v) ==
    Append(SelectSeq(m, LAMBDA e : e.key # k), [key |-> k, value |-> v])

\* Map.prototype.set: an existing key keeps its position.
MapSet(m, k, v) ==
    IF MapHas(m, k)
    THEN [i \in 1..Len(m) |-> IF m[i].key = k THEN [key |-> k, value |-> v] ELSE m[i]]
    ELSE Append(m, [key |-> k, value |-> v])

\* Variant of Slice that also keeps the element at index end.
Slice_inclusiveEnd(s, start, end) == SubSeq(s, start + 1, Min(end + 1, Len(s)))

\* Array.prototype.slice(start, end) with 0 <= start.
Slice(s, start, end) == SubSeq(s, start + 1, Min(end, Len(s)))

\* Variant of SortDescBy that puts the later of two elements with equal keys first.
SortDescBy_tiesReversed(keys, s) ==
    LET n == Len(s)
        pos(i) == 1 + Cardinality({ j \in 1..n :
                         \/ keys[j] > keys[i]
                         \/ keys[j] = keys[i] /\ j > i })
    IN [p \in 1..n |-> s[CHOOSE i \in 1..n : pos(i) = p]]

\* Array.prototype.sort with the comparator (a, b) => key(b) - key(a), where
\* keys[i] is the comparator's key of s[i]: descending by key, elements with
\* equal keys keep their order (the sort is stable).
SortDescBy(keys, s) ==
    LET n == Len(s)
        pos(i) == 1 + Cardinality({ j \in 1..n :
                         \/ keys[j] > keys[i]
                         \/ keys[j] = keys[i] /\ j < i })
    IN [p \in 1..n |-> s[CHOOSE i \in 1..n : pos(i) = p]]

\* reduce((sum, p) => sum + Number(p.nett_gp), 0)
RECURSIVE SumNettGp(_)
SumNettGp(ps) ==
    IF ps = <<>> THEN 0
    ELSE SumNettGp(SubSeq(ps, 1, Len(ps) - 1)) + Number(ps[Len(ps)].nett_gp)

\* Exact fractions [num, den], den > 0, in lowest terms.
RECURSIVE GCD(_, _)
GCD(a, b) == IF b = 0 THEN a ELSE GCD(b, a % b)

Abs(a) == IF a < 0 THEN -a ELSE a

Fraction(n, d) ==
    LET g == GCD(Abs(n), d)
    IN [num |-> n \div g, den |-> d \div g]

----------------------------------------------------------------------------
(* Dashboard.fetchDashboardData: the computation on the fetched rows *)

\* The number of entries a ranking keeps: .slice(0, 5).
TopLimit == 5

\* targetData?.yearly_target || 0
Dashboard_yearlyTarget(target) ==
    IF target = <<>> THEN 0
    ELSE IF target[1].yearly_target = 0 THEN 0 ELSE target[1].yearly_target

Dashboard_totalIncome(ps) == SumNettGp(ps)

\* Variant of Dashboard_achievement that leaves out the factor 100.
Dashboard_achievement_ratio(totalIncome, yearlyTarget) ==
    IF yearlyTarget > 0
    THEN Fraction(totalIncome, yearlyTarget)
    ELSE Fraction(0, 1)

\* yearlyTarget > 0 ? (totalIncome / yearlyTarget) * 100 : 0
Dashboard_achievement(totalIncome, yearlyTarget) ==
    IF yearlyTarget > 0
    THEN Fraction(totalIncome * 100, yearlyTarget)
    ELSE Fraction(0, 1)

\* Variant of Dashboard_gap with the operands exchanged.
Dashboard_gap_swapped(totalIncome, yearlyTarget) == totalIncome - yearlyTarget

Dashboard_gap(totalIncome, yearlyTarget) == yearlyTarget - totalIncome

\* Variant of Dashboard_quarterTarget that pairs every quarter with q1_target.
Dashboard_quarterTarget_firstQuarter(target, quarter) ==
    IF target = <<>> THEN 0 ELSE target[1].q1_target

\* targetData?.[`${quarter.toLowerCase()}_target`] || 0
Dashboard_quarterTarget(target, quarter) ==
    IF target = <<>> THEN 0
    ELSE CASE quarter = "Q1" -> target[1].q1_target
           [] quarter = "Q2" -> target[1].q2_target
           [] quarter = "Q3" -> target[1].q3_target
           [] quarter = "Q4" -> target[1].q4_target

\* Variant of Dashboard_quarterIncome without the filter on the quarter.
Dashboard_quarterIncome_unfiltered(ps, quarter) == SumNettGp(ps)

\* projects.filter((p) => p.quarter === quarter).reduce(...)
Dashboard_quarterIncome(ps, quarter) ==
    SumNettGp(SelectSeq(ps, LAMBDA p : p.quarter = quarter))

\* Variant of Dashboard_quarterlyData that lists only the quarters that have rows.
Dashboard_quarterlyData_presentOnly(ps, target) ==
    LET present == SelectSeq(QuarterLabels,
                             LAMBDA q : \E i \in 1..Len(ps) : ps[i].quarter = q)
    IN [i \in 1..Len(present) |->
          [quarter |-> present[i],
           income  |-> SumNettGp(SelectSeq(ps, LAMBDA p : p.quarter = present[i])),
           target  |-> 0]]

Dashboard_quarterlyData(ps, target) ==
    [i \in 1..Len(QuarterLabels) |->
        [quarter |-> QuarterLabels[i],
         income  |-> Dashboard_quarterIncome(ps, QuarterLabels[i]),
         target  |-> Dashboard_quarterTarget(target, QuarterLabels[i])]]

\* Variant of Dashboard_categoryMap that stores the row's amount instead of adding it.
RECURSIVE Dashboard_categoryMap_overwrite(_)
Dashboard_categoryMap_overwrite(ps) ==
    IF ps = <<>> THEN <<>>
    ELSE LET m == Dashboard_categoryMap_overwrite(SubSeq(ps, 1, Len(ps) - 1))
             p == ps[Len(ps)]
         IN MapSet(m, p.category, Number(p.nett_gp))

RECURSIVE Dashboard_categoryMap(_)
Dashboard_categoryMap(ps) ==
    IF ps = <<>> THEN <<>>
    ELSE LET m == Dashboard_categoryMap(SubSeq(ps, 1, Len(ps) - 1))
             p == ps[Len(ps)]
             current == IF MapHas(m, p.category) THEN MapGet(m, p.category) ELSE 0
         IN MapSet(m, p.category, current + Number(p.nett_gp))

Dashboard_categoryData(ps) ==
    LET m == Dashboard_categoryMap(ps)
    IN [i \in 1..Len(m) |-> [name |-> m[i].key, value |-> m[i].value]]

RECURSIVE Dashboard_picMap(_)
Dashboard_picMap(ps) ==
    IF ps = <<>> THEN <<>>
    ELSE LET m == Dashboard_picMap(SubSeq(ps, 1, Len(ps) - 1))
             project == ps[Len(ps)]
             picName == OrElse(project.pic, "N/A")
             current == IF MapHas(m, picName) THEN MapGet(m, picName)
                        ELSE [total |-> 0, count |-> 0]
         IN MapSet(m, picName, [total |-> current.total + Number(project.nett_gp),
                                count |-> current.count + 1])

\* Variant of Dashboard_topPicsArray that leaves the entries in insertion order.
Dashboard_topPicsArray_unsorted(ps) ==
    LET m == Dashboard_picMap(ps)
        entries == [i \in 1..Len(m) |->
                      [pic |-> m[i].key, totalIncome |-> m[i].value.total,
                       projectCount |-> m[i].value.count]]
    IN Slice(entries, 0, TopLimit)

Dashboard_topPicsArray(ps) ==
    LET m == Dashboard_picMap(ps)
        entries == [i \in 1..Len(m) |->
                      [pic |-> m[i].key, totalIncome |-> m[i].value.total,
                       projectCount |-> m[i].value.count]]
    IN Slice(SortDescBy([i \in 1..Len(entries) |-> entries[i].totalIncome], entries), 0, TopLimit)

RECURSIVE Dashboard_productMap(_)
Dashboard_productMap(ps) ==
    IF ps = <<>> THEN <<>>
    ELSE LET m == Dashboard_productMap(SubSeq(ps, 1, Len(ps) - 1))
             project == ps[Len(ps)]
             productName == OrElse(project.product, "N/A")
             current == IF MapHas(m, productName) THEN MapGet(m, productName)
                        ELSE [total |-> 0, count |-> 0]
         IN MapSet(m, productName, [total |-> current.total + Number(project.nett_gp),
                                    count |-> current.count + 1])

Dashboard_topProductsArray(ps) ==
    LET m == Dashboard_productMap(ps)
        entries == [i \in 1..Len(m) |->
                      [product |-> m[i].key, totalIncome |-> m[i].value.total,
                       projectCount |-> m[i].value.count]]
    IN Slice(SortDescBy([i \in 1..Len(entries) |-> entries[i].totalIncome], entries), 0, TopLimit)

Dashboard_stats(ps, target) ==
    LET totalIncome == Dashboard_totalIncome(ps)
        yearlyTarget == Dashboard_yearlyTarget(target)
    IN [totalIncome   |-> totalIncome,
        target        |-> yearlyTarget,
        achievement   |-> Dashboard_achievement(totalIncome, yearlyTarget),
        gap           |-> Dashboard_gap(totalIncome, yearlyTarget),
        quarterlyData |-> Dashboard_quarterlyData(ps, target),
        categoryData  |-> Dashboard_categoryData(ps)]

----------------------------------------------------------------------------
(* TopPics.fetchRankings *)

\* Variant of TopPics_picMap that does not carry the count of a known key forward.
RECURSIVE TopPics_picMap_countReset(_)
TopPics_picMap_countReset(ps) ==
    IF ps = <<>> THEN <<>>
    ELSE LET m == TopPics_picMap_countReset(SubSeq(ps, 1, Len(ps) - 1))
             project == ps[Len(ps)]
             current == IF MapHas(m, project.pic) THEN MapGet(m, project.pic)
                        ELSE [total |-> 0, count |-> 0]
         IN MapSet(m, project.pic, [total |-> current.total + Number(project.nett_gp),
                                    count |-> 1])

RECURSIVE TopPics_picMap(_)
TopPics_picMap(ps) ==
    IF ps = <<>> THEN <<>>
    ELSE LET m == TopPics_picMap(SubSeq(ps, 1, Len(ps) - 1))
             project == ps[Len(ps)]
             current == IF MapHas(m, project.pic) THEN MapGet(m, project.pic)
                        ELSE [total |-> 0, count |-> 0]
         IN MapSet(m, project.pic, [total |-> current.total + Number(project.nett_gp),
                                    count |-> current.count + 1])

TopPics_rankingsArray(ps) ==
    LET m == TopPics_picMap(ps)
        entries == [i \in 1..Len(m) |->
                      [pic |-> m[i].key, totalIncome |-> m[i].value.total,
                       projectCount |-> m[i].value.count]]
    IN Slice(SortDescBy([i \in 1..Len(entries) |-> entries[i].totalIncome], entries), 0, TopLimit)

----------------------------------------------------------------------------
(* TopProducts.fetchRankings *)

RECURSIVE TopProducts_productMap(_)
TopProducts_productMap(ps) ==
    IF ps = <<>> THEN <<>>
    ELSE LET m == TopProducts_productMap(SubSeq(ps, 1, Len(ps) - 1))
             project == ps[Len(ps)]
             productName == OrElse(project.product, "N/A")
             current == IF MapHas(m, productName) THEN MapGet(m, productName)
                        ELSE [total |-> 0, count |-> 0, pics |-> <<>>]
             picIncome == IF MapHas(current.pics, project.pic)
                          THEN MapGet(current.pics, project.pic) ELSE 0
             pics == MapSet(current.pics, project.pic, picIncome + Number(project.nett_gp))
         IN MapSet(m, productName, [total |-> current.total + Number(project.nett_gp),
                                    count |-> current.count + 1,
                                    pics  |-> pics])

\* Variant of TopProducts_pics that leaves the entries in insertion order.
TopProducts_pics_unsorted(picsMap) ==
    [i \in 1..Len(picsMap) |-> [pic |-> picsMap[i].key, income |-> picsMap[i].value]]

\* Array.from(data.pics.entries()).map(...).sort((a, b) => b.income - a.income)
TopProducts_pics(picsMap) ==
    SortDescBy([i \in 1..Len(picsMap) |-> picsMap[i].value],
               [i \in 1..Len(picsMap) |-> [pic |-> picsMap[i].key, income |-> picsMap[i].value]])

TopProducts_rankingsArray(ps) ==
    LET m == TopProducts_productMap(ps)
        entries == [i \in 1..Len(m) |->
                      [product |-> m[i].key, totalIncome |-> m[i].value.total,
                       projectCount |-> m[i].value.count,
                       pics |-> TopProducts_pics(m[i].value.pics)]]
    IN Slice(SortDescBy([i \in 1..Len(entries) |-> entries[i].totalIncome], entries), 0, TopLimit)

----------------------------------------------------------------------------
(* The store's select and the pages' state *)

\* supabase.from("projects").select(...) with the optional .eq("year", year).
SelectProjects(table, year) ==
    IF year = "all" THEN table
    ELSE SelectSeq(table, LAMBDA p : p.year = parseInt(year))

\* useState initial value of Dashboard's stats.
InitialStats ==
    [totalIncome |-> 0, target |-> 0, achievement |-> Fraction(0, 1), gap |-> 0,
     quarterlyData |-> <<>>, categoryData |-> <<>>]

\* No page mounted yet; the values are the pages' useState initial values.
PagesInit ==
    /\ page = "none"
    /\ selectedYear = "all"
    /\ loading = TRUE
    /\ projects = <<>>
    /\ targetData = <<>>
    /\ stats = InitialStats
    /\ topPics = <<>>
    /\ topProducts = <<>>
    /\ picRankings = <<>>
    /\ productRankings = <<>>

\* ExcelUpload's useState initial values, with no file to pick.
ExcelUploadIdle ==
    /\ disk = <<>>
    /\ file = <<>>
    /\ uploading = FALSE
    /\ errors = <<>>
    /\ preview = <<>>
    /\ parsing = {}
    /\ result = <<>>
    /\ uploadRequest = <<>>

\* useState initial values of Dashboard's analysis state; nothing in flight.
DashboardIdle ==
    analysis = "" /\ analyzingData = FALSE /\ analysisCall = <<>> /\ fetches = <<>>

\* useState initial value of Targets' formData.
InitialFormData ==
    [year |-> toString(NowYear), q1_target |-> EmptyCell, q2_target |-> EmptyCell,
     q3_target |-> EmptyCell, q4_target |-> EmptyCell, yearly_target |-> EmptyCell]

TargetsIdle ==
    formData = InitialFormData /\ existingTarget = <<>> /\ targetFetches = <<>>

\* useState initial values of Reports' filters.
ReportsIdle ==
    filteredProjects = <<>> /\ selectedQuarter = "all" /\ selectedCategory = "all"

TableNames == {"projects", "targets", "profiles"}

\* Nothing exported or backed up yet; the tables' timestamps are not followed.
MoreIdle ==
    /\ download = <<>> /\ profilesTable = <<>>
    /\ backupData = <<>> /\ isBackingUp = FALSE /\ backupCall = <<>>
    /\ now = 0 /\ stamps = [t \in TableNames |-> <<>>]

RestIdle == DashboardIdle /\ TargetsIdle /\ ReportsIdle /\ storeCall = <<>> /\ MoreIdle

Init ==
    /\ projectsTable \in TableInputs
    /\ toast = <<>>
    /\ PagesInit
    /\ ExcelUploadIdle
    /\ targetsTable = <<>>
    /\ RestIdle

\* Dashboard.fetchDashboardData with both selects answered with data.
Dashboard_fetchDashboardData(year, target) ==
    /\ page = "none"
    /\ LET data == SelectProjects(projectsTable, year)
       IN /\ projects' = <<data>>
          /\ targetData' = target
          /\ stats' = Dashboard_stats(data, target)
          /\ topPics' = Dashboard_topPicsArray(data)
          /\ topProducts' = Dashboard_topProductsArray(data)
    /\ page' = "Dashboard"
    /\ selectedYear' = year
    /\ loading' = FALSE
    /\ UNCHANGED <<projectsTable, picRankings, productRankings>>
    /\ UNCHANGED <<toast, uploadVars, restVars>>

\* Dashboard.fetchDashboardData when the projects select fails (data is null).
Dashboard_fetchFailed(year) ==
    /\ page = "none"
    /\ page' = "Dashboard"
    /\ selectedYear' = year
    /\ loading' = FALSE
    /\ UNCHANGED <<projectsTable, projects, targetData, stats, topPics, topProducts,
                   picRankings, productRankings>>
    /\ UNCHANGED <<toast, uploadVars, restVars>>

TopPics_fetchRankings(year) ==
    /\ page = "none"
    /\ LET data == SelectProjects(projectsTable, year)
       IN /\ projects' = <<data>>
          /\ picRankings' = TopPics_rankingsArray(data)
    /\ page' = "TopPics"
    /\ selectedYear' = year
    /\ loading' = FALSE
    /\ UNCHANGED <<projectsTable, targetData, stats, topPics, topProducts, productRankings>>
    /\ UNCHANGED <<toast, uploadVars, restVars>>

TopPics_fetchFailed(year) ==
    /\ page = "none"
    /\ page' = "TopPics"
    /\ selectedYear' = year
    /\ loading' = FALSE
    /\ UNCHANGED <<projectsTable, projects, targetData, stats, topPics, topProducts,
                   picRankings, productRankings>>
    /\ UNCHANGED <<toast, uploadVars, restVars>>

TopProducts_fetchRankings(year) ==
    /\ page = "none"
    /\ LET data == SelectProjects(projectsTable, year)
       IN /\ projects' = <<data>>
          /\ productRankings' = TopProducts_rankingsArray(data)
    /\ page' = "TopProducts"
    /\ selectedYear' = year
    /\ loading' = FALSE
    /\ UNCHANGED <<projectsTable, targetData, stats, topPics, topProducts, picRankings>>
    /\ UNCHANGED <<toast, uploadVars, restVars>>

TopProducts_fetchFailed(year) ==
    /\ page = "none"
    /\ page' = "TopProducts"
    /\ selectedYear' = year
    /\ loading' = FALSE
    /\ UNCHANGED <<projectsTable, projects, targetData, stats, topPics, topProducts,
                   picRankings, productRankings>>
    /\ UNCHANGED <<toast, uploadVars, restVars>>

\* .order("created_at", { ascending: false }) on a table kept in creation order.
OrderByCreatedDesc(table) == [i \in 1..Len(table) |-> table[Len(table) + 1 - i]]

\* error.message of a select the store did not answer with data.
StoreErrors == {"Failed to fetch", "JWT expired"}

\* Projects.fetchProjects answered with data.
Projects_fetchProjects ==
    /\ page = "none"
    /\ page' = "Projects"
    /\ projects' = <<OrderByCreatedDesc(projectsTable)>>
    /\ filteredProjects' = OrderByCreatedDesc(projectsTable)
    /\ loading' = FALSE
    /\ UNCHANGED <<projectsTable, selectedYear, targetData, stats, topPics, topProducts,
                   picRankings, productRankings>>
    /\ UNCHANGED <<toast, uploadVars, dashVars, targetVars, selectedQuarter,
                   selectedCategory, storeCall, moreVars>>

\* Projects.fetchProjects answered with an error.
Projects_fetchFailed(message) ==
    /\ page = "none"
    /\ page' = "Projects"
    /\ toast' = <<Toast("error", message, 0)>>
    /\ loading' = FALSE
    /\ UNCHANGED <<projectsTable, selectedYear, projects, targetData, stats, topPics,
                   topProducts, picRankings, productRankings>>
    /\ UNCHANGED <<uploadVars, restVars>>

\* Variant of Reports_applyFilters that ignores the year.
Reports_applyFilters_anyYear(list, year, quarter, category) ==
    SelectSeq(list, LAMBDA p : /\ quarter # "all" => p.quarter = quarter
                               /\ category # "all" => p.category = category)

\* Reports.applyFilters
Reports_applyFilters(list, year, quarter, category) ==
    SelectSeq(list, LAMBDA p : /\ toString(p.year) = year
                               /\ quarter # "all" => p.quarter = quarter
                               /\ category # "all" => p.category = category)

\* Reports.fetchProjects answered with data, and the effect on projects.
Reports_fetchProjects ==
    /\ page = "none"
    /\ page' = "Reports"
    /\ selectedYear' = toString(NowYear)
    /\ projects' = <<OrderByCreatedDesc(projectsTable)>>
    /\ filteredProjects' = Reports_applyFilters(OrderByCreatedDesc(projectsTable),
                                                toString(NowYear), selectedQuarter,
                                                selectedCategory)
    /\ loading' = FALSE
    /\ UNCHANGED <<projectsTable, targetData, stats, topPics, topProducts,
                   picRankings, productRankings>>
    /\ UNCHANGED <<toast, uploadVars, dashVars, targetVars, selectedQuarter,
                   selectedCategory, storeCall, moreVars>>

\* Reports.fetchProjects answered with an error.
Reports_fetchFailed(message) ==
    /\ page = "none"
    /\ page' = "Reports"
    /\ selectedYear' = toString(NowYear)
    /\ toast' = <<Toast("error", message, 0)>>
    /\ loading' = FALSE
    /\ UNCHANGED <<projectsTable, projects, targetData, stats, topPics,
                   topProducts, picRankings, productRankings>>
    /\ UNCHANGED <<uploadVars, restVars>>

Next ==
    \/ \E year \in DashboardYears, target \in TargetResults :
          Dashboard_fetchDashboardData(year, target)
    \/ \E year \in DashboardYears : Dashboard_fetchFailed(year)
    \/ \E year \in RankingYears : TopPics_fetchRankings(year)
    \/ \E year \in RankingYears : TopPics_fetchFailed(year)
    \/ \E year \in RankingYears : TopProducts_fetchRankings(year)
    \/ \E year \in RankingYears : TopProducts_fetchFailed(year)
    \/ Projects_fetchProjects
    \/ \E message \in StoreErrors : Projects_fetchFailed(message)
    \/ Reports_fetchProjects
    \/ \E message \in StoreErrors : Reports_fetchFailed(message)

Spec == Init /\ [][Next]_vars

----------------------------------------------------------------------------
(* utils/excel-parser.ts: projectSchema and parseExcelFile *)

\* z.number().int().min(2000).max(2100)
MinYear == 2000
MaxYear == 2100

\* A pid is a tuple: <<>> for the empty text, <<text>> for free text, and
\* <<"P", yy, n>> for 'P' || yy || the 4 characters that read as n.
PidOf(yy, n) == <<"P", yy, n>>

\* The length of a text, as far as the schemas look at it (2 stands for 2 or more).
StringLength(str) ==
    CASE str = "" -> 0
      [] str = "X" -> 1
      [] OTHER -> 2

\* parseFloat(cell || fallback): [nan, value]. A cell that is empty or 0 is falsy.
ParseNumberCell(cell, fallback) ==
    CASE cell.kind = "text" -> [nan |-> TRUE, value |-> 0]
      [] cell.kind = "number" /\ cell.value # 0 -> [nan |-> FALSE, value |-> cell.value]
      [] OTHER -> [nan |-> FALSE, value |-> fallback]

\* The object parseExcelFile hands to projectSchema.parse for a sheet row.
RowInput(row) ==
    [pid              |-> row.pid,
     business_partner |-> OrElse(row.business_partner, ""),
     end_user         |-> OrElse(row.end_user, ""),
     category         |-> OrElse(row.category, ""),
     product          |-> OrElse(row.product, ""),
     pic              |-> OrElse(row.pic, ""),
     nett_gp          |-> ParseNumberCell(row.nett_gp, 0),
     quarter          |-> OrElse(row.quarter, ""),
     year             |-> ParseNumberCell(row.year, NowYear)]

CategoryEnum == {"Implementation", "Maintenance", "LSC"}
QuarterEnum == {"Q1", "Q2", "Q3", "Q4"}

IssueIf(cond, message) == IF cond THEN <<message>> ELSE <<>>

NumberIssues(n, positive) ==
    IF n.nan THEN <<"Expected number, received nan">>
    ELSE IssueIf(positive /\ n.value <= 0, "Nett GP must be positive")

\* Variant of YearIssues without the lower limit.
YearIssues_noMinimum(n) ==
    IF n.nan THEN <<"Expected number, received nan">>
    ELSE IssueIf(n.value > MaxYear, "Number must be less than or equal to 2100")

YearIssues(n) ==
    IF n.nan THEN <<"Expected number, received nan">>
    ELSE IssueIf(n.value < MinYear, "Number must be greater than or equal to 2000")
         \o IssueIf(n.value > MaxYear, "Number must be less than or equal to 2100")

\* The messages of the ZodError of projectSchema.parse(input), in the order
\* of the schema's fields; <<>> when input is valid.
projectSchema_issues(input) ==
    IssueIf(input.pid = <<>>, "PID is required")
    \o IssueIf(StringLength(input.business_partner) < 2, "Business Partner is required")
    \o IssueIf(StringLength(input.end_user) < 2, "End User is required")
    \o IssueIf(input.category \notin CategoryEnum,
               "Category must be Implementation, Maintenance, or LSC")
    \o IssueIf(StringLength(input.pic) < 2, "PIC is required")
    \o NumberIssues(input.nett_gp, TRUE)
    \o IssueIf(input.quarter \notin QuarterEnum, "Quarter must be Q1, Q2, Q3, or Q4")
    \o YearIssues(input.year)

\* The value projectSchema.parse returns for a valid input.
ProjectData(input) ==
    [pid              |-> input.pid,
     business_partner |-> input.business_partner,
     end_user         |-> input.end_user,
     category         |-> input.category,
     product          |-> input.product,
     pic              |-> input.pic,
     nett_gp          |-> input.nett_gp.value,
     quarter          |-> input.quarter,
     year             |-> input.year.value]

\* Variant of parseExcelFile_rows that stops at the first invalid row.
RECURSIVE parseExcelFile_rows_stopAtFirst(_)
parseExcelFile_rows_stopAtFirst(rows) ==
    IF rows = <<>> THEN [errors |-> <<>>, validProjects |-> <<>>]
    ELSE LET acc == parseExcelFile_rows_stopAtFirst(SubSeq(rows, 1, Len(rows) - 1))
             index == Len(rows) - 1
             input == RowInput(rows[Len(rows)])
             issues == projectSchema_issues(input)
         IN IF acc.errors # <<>> THEN acc
            ELSE IF issues = <<>>
            THEN [acc EXCEPT !.validProjects = Append(@, ProjectData(input))]
            ELSE [acc EXCEPT !.errors = Append(@, [row |-> index + 2, text |-> issues])]

\* jsonData.forEach((row, index) => ...): the errors and validProjects arrays.
\* An error `Row ${index + 2}: ${messages}` is [row, text].
RECURSIVE parseExcelFile_rows(_)
parseExcelFile_rows(rows) ==
    IF rows = <<>> THEN [errors |-> <<>>, validProjects |-> <<>>]
    ELSE LET acc == parseExcelFile_rows(SubSeq(rows, 1, Len(rows) - 1))
             index == Len(rows) - 1
             input == RowInput(rows[Len(rows)])
             issues == projectSchema_issues(input)
         IN IF issues = <<>>
            THEN [acc EXCEPT !.validProjects = Append(@, ProjectData(input))]
            ELSE [acc EXCEPT !.errors = Append(@, [row |-> index + 2, text |-> issues])]

\* An error that belongs to no row.
FileError(message) == [row |-> 0, text |-> <<message>>]

\* parseExcelFile(file): the ParseResult; data and errors are <<>> when absent.
parseExcelFile(f) ==
    CASE f.content = "unreadable" ->
           [success |-> FALSE, data |-> <<>>, errors |-> <<<<FileError("Failed to read file")>>>>]
      [] f.content = "corrupt" ->
           [success |-> FALSE, data |-> <<>>,
            errors |-> <<<<FileError("Failed to parse Excel file. Please check the format.")>>>>]
      [] OTHER ->
           LET r == parseExcelFile_rows(f.rows)
           IN IF Len(r.errors) > 0
              THEN [success |-> FALSE, data |-> <<>>, errors |-> <<r.errors>>]
              ELSE IF Len(r.validProjects) = 0
              THEN [success |-> FALSE, data |-> <<>>,
                    errors |-> <<<<FileError("No valid data found in Excel file")>>>>]
              ELSE [success |-> TRUE, data |-> <<r.validProjects>>, errors |-> <<>>]

----------------------------------------------------------------------------
(* migrations: the projects table, generate_pid and set_project_pid *)

\* LPAD(counter::TEXT, 4, '0') keeps the first 4 characters of a longer text.
PidLimit == 10000

RECURSIVE LPAD(_)
LPAD(counter) == IF counter < PidLimit THEN counter ELSE LPAD(counter \div 10)

\* generate_pid(): 'P' || YY || LPAD(COUNT(*) of this year's rows + 1).
generate_pid(table) ==
    LET counter == Cardinality({ i \in DOMAIN table : table[i].created = NowYear }) + 1
    IN PidOf(NowYear % 100, LPAD(counter))

\* pid IS NULL OR pid = ''
NullPid == <<Null>>
BlankPid(pid) == pid = NullPid \/ pid = <<>>

\* BEFORE INSERT trigger set_project_pid_trigger, followed by the column defaults.
set_project_pid(table, row) ==
    [pid              |-> IF BlankPid(row.pid) THEN generate_pid(table) ELSE row.pid,
     business_partner |-> row.business_partner,
     end_user         |-> row.end_user,
     category         |-> row.category,
     product          |-> row.product,
     pic              |-> row.pic,
     nett_gp          |-> row.nett_gp,
     quarter          |-> row.quarter,
     year             |-> row.year,
     created          |-> NowYear]

\* Variant of TableConstraints without UNIQUE (pid).
TableConstraints_noUnique(table, row) ==
    /\ row.category \in CategoryEnum
    /\ row.quarter \in QuarterEnum
    /\ row.business_partner # Null /\ row.end_user # Null /\ row.pic # Null

\* pid TEXT NOT NULL UNIQUE, the CHECK lists and the NOT NULL columns, for a
\* row that is to join table.
TableConstraints(table, row) ==
    /\ \A i \in DOMAIN table : table[i].pid # row.pid
    /\ row.category \in CategoryEnum
    /\ row.quarter \in QuarterEnum
    /\ row.business_partner # Null /\ row.end_user # Null /\ row.pic # Null

\* The rows of one INSERT statement join the table one after the other.
RECURSIVE InsertEach(_, _)
InsertEach(table, rows) ==
    IF rows = <<>> THEN [error |-> FALSE, table |-> table]
    ELSE LET row == set_project_pid(table, Head(rows))
         IN IF TableConstraints(table, row)
            THEN InsertEach(Append(table, row), Tail(rows))
            ELSE [error |-> TRUE, table |-> table]

\* Variant of InsertRows that keeps the rows that joined before the error.
InsertRows_rowByRow(table, rows) == InsertEach(table, rows)

\* supabase.from("projects").insert(rows): one statement, rolled back as a
\* whole when a row violates a constraint.
InsertRows(table, rows) ==
    LET r == InsertEach(table, rows)
    IN IF r.error THEN [error |-> TRUE, table |-> table] ELSE r

----------------------------------------------------------------------------
(* unnamed/part_000: ExcelUpload *)

MaxSheetRows == 3

\* Rows a sheet can hold: two valid ones, two with several invalid cells.
RawRows ==
    << [pid |-> PidOf(25, 1), business_partner |-> "Acme", end_user |-> "Bank",
        category |-> "LSC", product |-> "NetApp", pic |-> "Ani",
        nett_gp |-> NumberCell(5), quarter |-> "Q1", year |-> NumberCell(2025)],
       [pid |-> <<"X1">>, business_partner |-> "Acme", end_user |-> "Bank",
        category |-> "Maintenance", product |-> Undefined, pic |-> "Budi",
        nett_gp |-> NumberCell(3), quarter |-> "Q4", year |-> EmptyCell],
       [pid |-> <<>>, business_partner |-> "Acme", end_user |-> Undefined,
        category |-> "Other", product |-> "Oracle", pic |-> "Citra",
        nett_gp |-> TextCell, quarter |-> "Q2", year |-> NumberCell(2025)],
       [pid |-> <<"X2">>, business_partner |-> "X", end_user |-> "Bank",
        category |-> "LSC", product |-> "", pic |-> "Dewi",
        nett_gp |-> NumberCell(0), quarter |-> "Q5", year |-> NumberCell(1999)] >>

Sheets == UNION { [1..n -> { RawRows[i] : i \in DOMAIN RawRows }] : n \in 0..MaxSheetRows }

ExcelFile(name, content, rows) == [name |-> name, content |-> content, rows |-> rows]

\* The files the user can pick: any sheet, and one of a few fixed files.
SheetFiles == { ExcelFile("a.xlsx", "sheet", rows) : rows \in Sheets }
OtherFiles ==
    { ExcelFile("b.xls", "sheet", <<RawRows[1], RawRows[2]>>),
      ExcelFile("b.xls", "corrupt", <<>>),
      ExcelFile("b.xls", "unreadable", <<>>),
      ExcelFile("b.csv", "sheet", <<RawRows[2]>>) }

\* A project created before the import, as the store keeps it.
StoredBefore ==
    << [pid |-> <<"X1">>, business_partner |-> "Acme", end_user |-> "Bank",
        category |-> "LSC", product |-> Null, pic |-> "Eko", nett_gp |-> 7,
        quarter |-> "Q3", year |-> 2025, created |-> 2025] >>

\* selectedFile.name.endsWith('.xlsx') || selectedFile.name.endsWith('.xls')
IsExcelName(name) == name \in {"a.xlsx", "b.xls"}

\* preview.map(project => ({...})): the rows handed to insert.
UploadRows(rows) ==
    [i \in DOMAIN rows |-> [rows[i] EXCEPT !.product = OrElse(@, Null)]]

\* handleFileChange up to the await of parseExcelFile.
ExcelUpload_handleFileChange(f) ==
    /\ ~uploading
    /\ f \notin parsing
    /\ IF ~IsExcelName(f.name)
       THEN /\ toast' = <<Toast("error", "Please upload an Excel file (.xlsx or .xls)", 0)>>
            /\ UNCHANGED <<file, errors, preview, parsing>>
       ELSE /\ file' = <<f>>
            /\ errors' = <<>>
            /\ preview' = <<>>
            /\ parsing' = parsing \cup {f}
            /\ UNCHANGED toast
    /\ UNCHANGED <<restVars, projectsTable, pageVars, disk, uploading, result, uploadRequest>>

\* handleFileChange after the await: the ParseResult is applied.
ExcelUpload_parseResolved(f) ==
    /\ f \in parsing
    /\ parsing' = parsing \ {f}
    /\ LET r == parseExcelFile(f)
       IN /\ result' = <<r>>
          /\ IF r.success /\ r.data # <<>>
             THEN /\ preview' = r.data[1]
                  /\ toast' = <<Toast("success", "Preview: projects ready to upload",
                                      Len(r.data[1]))>>
                  /\ UNCHANGED errors
             ELSE IF r.errors # <<>>
             THEN /\ errors' = r.errors[1]
                  /\ UNCHANGED <<preview, toast>>
             ELSE UNCHANGED <<preview, toast, errors>>
    /\ UNCHANGED <<restVars, projectsTable, pageVars, disk, file, uploading, uploadRequest>>

\* handleUpload up to the await of the insert.
ExcelUpload_handleUpload ==
    /\ ~uploading
    /\ file # <<>> /\ preview # <<>>
    /\ uploading' = TRUE
    /\ uploadRequest' = <<UploadRows(preview)>>
    /\ UNCHANGED <<restVars, projectsTable, toast, pageVars, disk, file, errors, preview,
                   parsing, result>>

\* handleUpload after the await; the store either runs the insert or the
\* request fails before it.
ExcelUpload_uploadResolved(reached) ==
    /\ uploadRequest # <<>>
    /\ LET r == IF reached THEN InsertRows(projectsTable, uploadRequest[1])
                ELSE [error |-> TRUE, table |-> projectsTable]
       IN /\ projectsTable' = r.table
          /\ IF r.error
             THEN /\ toast' = <<Toast("error", "Failed to upload projects", 0)>>
                  /\ UNCHANGED <<file, preview, errors>>
             ELSE /\ toast' = <<Toast("success", "Successfully uploaded projects",
                                      Len(uploadRequest[1]))>>
                  /\ file' = <<>>
                  /\ preview' = <<>>
                  /\ errors' = <<>>
    /\ uploading' = FALSE
    /\ uploadRequest' = <<>>
    /\ UNCHANGED <<restVars, pageVars, disk, parsing, result>>

InitImport ==
    /\ projectsTable \in {<<>>, StoredBefore}
    /\ toast = <<>>
    /\ PagesInit
    /\ disk \in SheetFiles \X OtherFiles
    /\ file = <<>> /\ uploading = FALSE /\ errors = <<>> /\ preview = <<>>
    /\ parsing = {} /\ result = <<>> /\ uploadRequest = <<>>
    /\ targetsTable = <<>>
    /\ RestIdle

NextImport ==
    \/ \E i \in 1..2 : ExcelUpload_handleFileChange(disk[i])
    \/ \E i \in 1..2 : ExcelUpload_parseResolved(disk[i])
    \/ ExcelUpload_handleUpload
    \/ \E reached \in BOOLEAN : ExcelUpload_uploadResolved(reached)

SpecImport == InitImport /\ [][NextImport]_vars

----------------------------------------------------------------------------
(* pages/Dashboard.tsx with its calls in flight; functions/analyze-income *)

\* The number of fetchDashboardData calls followed after a mount.
MaxFetches == 3

TargetRow(id, year, q1, q2, q3, q4, yearly) ==
    [id |-> id, year |-> year, q1_target |-> q1, q2_target |-> q2, q3_target |-> q3,
     q4_target |-> q4, yearly_target |-> yearly]

TargetsInputs ==
    { <<>>,
      <<TargetRow(1, 2025, 2, 1, 0, 3, 6)>>,
      <<TargetRow(1, 2025, 2, 1, 0, 3, 6), TargetRow(2, 2026, 1, 1, 1, 1, 4)>> }

\* supabase.from("targets").select("*").eq("year", year).maybeSingle()
SelectTarget(table, year) ==
    LET hits == SelectSeq(table, LAMBDA t : t.year = year)
    IN IF hits = <<>> THEN <<>> ELSE <<hits[1]>>

DashboardTables ==
    { OrderedById(S, TRUE) : S \in SUBSET { p \in ProjectCatalog : p.id \in {1, 2, 6, 8} } }

\* Mounting the page: the effect on selectedYear runs fetchDashboardData.
Dashboard_mount ==
    /\ page = "none"
    /\ page' = "Dashboard"
    /\ selectedYear' = toString(NowYear)
    /\ fetches' = <<[year |-> toString(NowYear), state |-> "pending"]>>
    /\ UNCHANGED <<loading, projects, targetData, stats, topPics, topProducts,
                   picRankings, productRankings>>
    /\ UNCHANGED <<analysis, analyzingData, analysisCall>>
    /\ UNCHANGED <<projectsTable, toast, uploadVars, targetVars, reportVars, storeCall, moreVars>>

\* onValueChange={setSelectedYear}, and the effect that follows it. The Select
\* is rendered only when loading is false.
Dashboard_setSelectedYear(year) ==
    /\ page = "Dashboard" /\ ~loading
    /\ year # selectedYear
    /\ Len(fetches) < MaxFetches
    /\ selectedYear' = year
    /\ fetches' = Append(fetches, [year |-> year, state |-> "pending"])
    /\ UNCHANGED <<page, loading, projects, targetData, stats, topPics, topProducts,
                   picRankings, productRankings>>
    /\ UNCHANGED <<analysis, analyzingData, analysisCall>>
    /\ UNCHANGED <<projectsTable, toast, uploadVars, targetVars, reportVars, storeCall, moreVars>>

\* The rest of fetchDashboardData once both selects of call i have answered;
\* a select that failed answers with data null.
Dashboard_fetchReturned(i, projectsOk, targetOk) ==
    /\ i \in DOMAIN fetches /\ fetches[i].state = "pending"
    /\ LET year == fetches[i].year
           data == SelectProjects(projectsTable, year)
           target == IF targetOk THEN SelectTarget(targetsTable, parseInt(year)) ELSE <<>>
       IN IF projectsOk
          THEN /\ projects' = <<data>>
               /\ targetData' = target
               /\ stats' = Dashboard_stats(data, target)
               /\ topPics' = Dashboard_topPicsArray(data)
               /\ topProducts' = Dashboard_topProductsArray(data)
               /\ fetches' = [fetches EXCEPT ![i].state =
                                 IF targetOk THEN "applied" ELSE "applied without target"]
          ELSE /\ UNCHANGED <<projects, targetData, stats, topPics, topProducts>>
               /\ fetches' = [fetches EXCEPT ![i].state = "failed"]
    /\ loading' = FALSE
    /\ UNCHANGED <<page, selectedYear, picRankings, productRankings>>
    /\ UNCHANGED <<analysis, analyzingData, analysisCall>>
    /\ UNCHANGED <<projectsTable, toast, uploadVars, targetVars, reportVars, storeCall, moreVars>>

AnalysisPlaceholder == "Failed to generate analysis. Please try again."

\* The button is disabled={analyzingData || stats.totalIncome === 0}.
Dashboard_analyzeData ==
    /\ page = "Dashboard" /\ ~loading
    /\ ~analyzingData /\ stats.totalIncome # 0
    /\ analyzingData' = TRUE
    /\ analysisCall' = <<[replied |-> FALSE, status |-> 0]>>
    /\ UNCHANGED <<analysis, fetches>>
    /\ UNCHANGED <<projectsTable, toast, pageVars, uploadVars, targetVars, reportVars, storeCall, moreVars>>

\* What the AI gateway, or the function's environment, can do to a call.
GatewayOutcomes == {"content", "no content", "429", "402", "503", "no key"}

\* The HTTP status of analyze-income's response.
analyze_income_serve(gateway) ==
    CASE gateway = "content" -> 200
      [] gateway = "429" -> 429
      [] gateway = "402" -> 402
      [] OTHER -> 500

\* The function answers, or the call never reaches it (status 0).
Dashboard_analysisAnswered(reached, gateway) ==
    /\ analysisCall # <<>> /\ ~analysisCall[1].replied
    /\ analysisCall' = <<[replied |-> TRUE,
                          status |-> IF reached THEN analyze_income_serve(gateway) ELSE 0]>>
    /\ UNCHANGED <<analysis, analyzingData, fetches>>
    /\ UNCHANGED <<projectsTable, toast, pageVars, uploadVars, targetVars, reportVars, storeCall, moreVars>>

\* Variant of InvokeError that reports only server errors.
InvokeError_serverErrorsOnly(status) == status >= 500

\* supabase.functions.invoke sets error for every answer that is not 2xx.
InvokeError(status) == status < 200 \/ status >= 300

\* analyzeData after the await.
Dashboard_analysisReturned ==
    /\ analysisCall # <<>> /\ analysisCall[1].replied
    /\ analysis' = IF InvokeError(analysisCall[1].status) THEN AnalysisPlaceholder
                   ELSE "generated analysis"
    /\ analyzingData' = FALSE
    /\ analysisCall' = <<>>
    /\ UNCHANGED fetches
    /\ UNCHANGED <<projectsTable, toast, pageVars, uploadVars, targetVars, reportVars, storeCall, moreVars>>

InitDashboard ==
    /\ projectsTable \in DashboardTables
    /\ targetsTable \in TargetsInputs
    /\ toast = <<>>
    /\ PagesInit
    /\ ExcelUploadIdle
    /\ RestIdle

NextDashboard ==
    \/ Dashboard_mount
    \/ \E year \in DashboardYears : Dashboard_setSelectedYear(year)
    \/ \E i \in 1..MaxFetches, projectsOk, targetOk \in BOOLEAN :
          Dashboard_fetchReturned(i, projectsOk, targetOk)
    \/ Dashboard_analyzeData
    \/ \E reached \in BOOLEAN, gateway \in GatewayOutcomes :
          Dashboard_analysisAnswered(reached, gateway)
    \/ Dashboard_analysisReturned

SpecDashboard == InitDashboard /\ [][NextDashboard]_vars

----------------------------------------------------------------------------
(* The projects table under inserts, updates and deletes sent to the store *)

MaxProjects == 3

\* A row as a client of the store can send it.
DirectRow(pid, category, nett_gp) ==
    [pid |-> pid, business_partner |-> "Acme", end_user |-> "Bank", category |-> category,
     product |-> Null, pic |-> "Ani", nett_gp |-> nett_gp, quarter |-> "Q1", year |-> NowYear]

BlankPids == {<<>>, NullPid}
GivenPids == {PidOf(NowYear % 100, 1), PidOf(NowYear % 100, 2), <<"X1">>}

BlankRows == { DirectRow(pid, "LSC", 5) : pid \in BlankPids }
DirectRows ==
    { DirectRow(pid, "LSC", 5) : pid \in BlankPids \cup GivenPids }
    \cup { DirectRow(<<>>, "Other", 5), DirectRow(<<"X1">>, "LSC", 0) }

\* The rows of the insert statements sent: one row, or two rows without a pid.
InsertInputs == { <<r>> : r \in DirectRows } \cup { <<r1, r2>> : r1, r2 \in BlankRows }

\* supabase.from("projects").insert(rows)
Store_insert(rows) ==
    /\ Len(projectsTable) + Len(rows) <= MaxProjects
    /\ LET r == InsertRows(projectsTable, rows)
       IN /\ projectsTable' = r.table
          /\ storeCall' = <<[op |-> "insert", rows |-> rows, error |-> r.error]>>
    /\ UNCHANGED <<toast, pageVars, uploadVars, dashVars, targetVars, reportVars, moreVars>>

\* UPDATE of row i: the set_project_pid trigger is BEFORE INSERT only.
UpdateRow(table, i, row) ==
    LET others == SelectSeq([k \in DOMAIN table |-> IF k = i THEN <<>> ELSE <<table[k]>>],
                            LAMBDA o : o # <<>>)
        rest == [k \in DOMAIN others |-> others[k][1]]
        new == [pid |-> row.pid, business_partner |-> row.business_partner,
                end_user |-> row.end_user, category |-> row.category,
                product |-> row.product, pic |-> row.pic, nett_gp |-> row.nett_gp,
                quarter |-> row.quarter, year |-> row.year, created |-> table[i].created]
    IN IF row.pid # NullPid /\ TableConstraints(rest, new)
       THEN [error |-> FALSE, table |-> [table EXCEPT ![i] = new]]
       ELSE [error |-> TRUE, table |-> table]

\* supabase.from("projects").update(row).eq("id", id)
Store_update(i, row) ==
    /\ i \in DOMAIN projectsTable
    /\ LET r == UpdateRow(projectsTable, i, row)
       IN /\ projectsTable' = r.table
          /\ storeCall' = <<[op |-> "update", rows |-> <<row>>, error |-> r.error]>>
    /\ UNCHANGED <<toast, pageVars, uploadVars, dashVars, targetVars, reportVars, moreVars>>

DeleteRow(table, i) == [k \in 1..(Len(table) - 1) |-> IF k < i THEN table[k] ELSE table[k + 1]]

\* supabase.from("projects").delete().eq("id", id)
Store_delete(i) ==
    /\ i \in DOMAIN projectsTable
    /\ projectsTable' = DeleteRow(projectsTable, i)
    /\ storeCall' = <<[op |-> "delete", rows |-> <<>>, error |-> FALSE]>>
    /\ UNCHANGED <<toast, pageVars, uploadVars, dashVars, targetVars, reportVars, moreVars>>

InitStore ==
    /\ projectsTable \in {<<>>, StoredBefore}
    /\ targetsTable = <<>>
    /\ toast = <<>>
    /\ PagesInit
    /\ ExcelUploadIdle
    /\ RestIdle

NextStore ==
    \/ \E rows \in InsertInputs : Store_insert(rows)
    \/ \E i \in 1..MaxProjects, row \in DirectRows : Store_update(i, row)
    \/ \E i \in 1..MaxProjects : Store_delete(i)

SpecStore == InitStore /\ [][NextStore]_vars

----------------------------------------------------------------------------
(* pages/ProjectForm.tsx and Projects.handleDelete *)

\* parseFloat(formData.nett_gp), parseInt(formData.year): the text of an input
\* that holds no number parses to NaN.
ParseFormNumber(cell) ==
    IF cell.kind = "number" THEN [nan |-> FALSE, value |-> cell.value]
    ELSE [nan |-> TRUE, value |-> 0]

\* Variant of ProjectForm_nettGpIssues that accepts 0.
ProjectForm_nettGpIssues_nonnegative(n) ==
    IF n.nan THEN <<"Expected number, received nan">>
    ELSE IssueIf(n.value < 0, "Nett GP must be positive")

\* nett_gp: z.number().positive("Nett GP must be positive")
ProjectForm_nettGpIssues(n) ==
    IF n.nan THEN <<"Expected number, received nan">>
    ELSE IssueIf(n.value <= 0, "Nett GP must be positive")

\* The messages of the ZodError of ProjectForm's projectSchema.parse(input).
ProjectForm_issues(input) ==
    IssueIf(input.pid = <<>>, "PID is required")
    \o IssueIf(StringLength(input.business_partner) < 2, "Business Partner is required")
    \o IssueIf(StringLength(input.end_user) < 2, "End User is required")
    \o IssueIf(input.category \notin CategoryEnum, "Invalid enum value")
    \o IssueIf(StringLength(input.pic) < 2, "PIC is required")
    \o ProjectForm_nettGpIssues(input.nett_gp)
    \o IssueIf(input.quarter \notin QuarterEnum, "Invalid enum value")
    \o IssueIf(input.year.nan, "Expected number, received nan")

\* What the form can hold at submit time.
FormData(pid, business_partner, category, nett_gp, quarter, year) ==
    [pid |-> pid, business_partner |-> business_partner, end_user |-> "Bank",
     category |-> category, product |-> "", pic |-> "Ani", nett_gp |-> nett_gp,
     quarter |-> quarter, year |-> year]

FormInputs ==
    { FormData(pid, "Acme", "LSC", NumberCell(5), "Q1", NumberCell(NowYear)) :
        pid \in {<<>>, PidOf(NowYear % 100, 1), <<"X1">>, <<"X2">>} }
    \cup { FormData(<<"X2">>, "X", "LSC", NumberCell(5), "Q1", NumberCell(NowYear)),
           FormData(<<"X2">>, "Acme", "Other", NumberCell(5), "Q1", NumberCell(NowYear)),
           FormData(<<"X2">>, "Acme", "LSC", NumberCell(5), "Q5", NumberCell(NowYear)),
           FormData(<<"X2">>, "Acme", "LSC", NumberCell(5), "Q1", EmptyCell),
           FormData(<<"X2">>, "Acme", "LSC", NumberCell(5), "Q1", NumberCell(1999)) }
    \cup { FormData(<<"X2">>, "Acme", "Maintenance", nett_gp, "Q2", NumberCell(NowYear)) :
             nett_gp \in {NumberCell(0), NumberCell(0 - 1), EmptyCell, TextCell} }

\* ProjectForm.handleSubmit; i is the position of the row being edited, 0 on
\* the create form. The store runs the call, or the call fails before it.
ProjectForm_handleSubmit(i, data, reached) ==
    /\ i \in 0..Len(projectsTable)
    /\ i = 0 => Len(projectsTable) < MaxProjects
    /\ LET input == [data EXCEPT !.nett_gp = ParseFormNumber(@),
                                 !.year = ParseFormNumber(@)]
           issues == ProjectForm_issues(input)
           row == ProjectData(input)
           r == IF ~reached THEN [error |-> TRUE, table |-> projectsTable]
                ELSE IF i = 0 THEN InsertRows(projectsTable, <<row>>)
                ELSE UpdateRow(projectsTable, i, row)
       IN IF issues # <<>>
          THEN /\ toast' = <<Toast("error", issues[1], 0)>>
               /\ storeCall' = <<>>
               /\ UNCHANGED projectsTable
          ELSE /\ projectsTable' = r.table
               /\ storeCall' = <<[op |-> IF i = 0 THEN "insert" ELSE "update",
                                  rows |-> <<row>>, error |-> r.error]>>
               /\ toast' = <<IF r.error THEN Toast("error", "store error", 0)
                             ELSE IF i = 0 THEN Toast("success", "Project created successfully", 0)
                             ELSE Toast("success", "Project updated successfully", 0)>>
    /\ UNCHANGED <<pageVars, uploadVars, dashVars, targetVars, reportVars, moreVars>>

\* Projects.handleDelete
Projects_handleDelete(i, reached) ==
    /\ i \in DOMAIN projectsTable
    /\ projectsTable' = IF reached THEN DeleteRow(projectsTable, i) ELSE projectsTable
    /\ storeCall' = <<[op |-> "delete", rows |-> <<>>, error |-> ~reached]>>
    /\ toast' = <<IF reached THEN Toast("success", "Project deleted successfully", 0)
                  ELSE Toast("error", "store error", 0)>>
    /\ UNCHANGED <<pageVars, uploadVars, dashVars, targetVars, reportVars, moreVars>>

NextProjects ==
    \/ \E i \in 0..MaxProjects, data \in FormInputs, reached \in BOOLEAN :
          ProjectForm_handleSubmit(i, data, reached)
    \/ \E i \in 1..MaxProjects, reached \in BOOLEAN : Projects_handleDelete(i, reached)

SpecProjects == InitStore /\ [][NextProjects]_vars

----------------------------------------------------------------------------
(* unnamed/part_001: Targets *)

\* The number of fetchTarget calls followed after a mount.
MaxTargetFetches == 3

TargetYears == {"2025", "2026"}

\* The target inputs as the user leaves them before a submission:
\* <<q1, q2, q3, q4, yearly>>.
TargetEdits ==
    { <<NumberCell(1), NumberCell(1), NumberCell(1), NumberCell(1), NumberCell(4)>>,
      <<EmptyCell, EmptyCell, EmptyCell, TextCell, NumberCell(9)>>,
      <<NumberCell(1), NumberCell(1), NumberCell(1), NumberCell(1), NumberCell(0)>>,
      <<NumberCell(1), NumberCell(0 - 1), NumberCell(1), NumberCell(1), NumberCell(4)>> }

\* parseFloat(text) || 0
ParseFloatOrZero(cell) == IF cell.kind = "number" THEN cell.value ELSE 0

\* Variant of targetSchema_issues that accepts a yearly target of 0.
targetSchema_issues_yearlyNonnegative(input) ==
    IssueIf(input.q1_target < 0, "Number must be greater than or equal to 0")
    \o IssueIf(input.q2_target < 0, "Number must be greater than or equal to 0")
    \o IssueIf(input.q3_target < 0, "Number must be greater than or equal to 0")
    \o IssueIf(input.q4_target < 0, "Number must be greater than or equal to 0")
    \o (IF input.yearly_target.nan THEN <<"Expected number, received nan">>
        ELSE IssueIf(input.yearly_target.value < 0, "Yearly target must be positive"))

\* The messages of the ZodError of targetSchema.parse(input); the year of the
\* form is one of TargetYears and always parses.
targetSchema_issues(input) ==
    IssueIf(input.q1_target < 0, "Number must be greater than or equal to 0")
    \o IssueIf(input.q2_target < 0, "Number must be greater than or equal to 0")
    \o IssueIf(input.q3_target < 0, "Number must be greater than or equal to 0")
    \o IssueIf(input.q4_target < 0, "Number must be greater than or equal to 0")
    \o (IF input.yearly_target.nan THEN <<"Expected number, received nan">>
        ELSE IssueIf(input.yearly_target.value <= 0, "Yearly target must be positive"))

\* A fetchTarget call in flight keeps the formData of the render that made it;
\* only its year is read when the call returns.
StartFetch(list, data) == Append(list, [year |-> data.year])

\* Mounting the page: the effect on formData.year runs fetchTarget.
Targets_mount ==
    /\ page = "none"
    /\ page' = "Targets"
    /\ targetFetches' = StartFetch(targetFetches, formData)
    /\ UNCHANGED <<selectedYear, loading, projects, targetData, stats, topPics, topProducts,
                   picRankings, productRankings>>
    /\ UNCHANGED <<targetsTable, formData, existingTarget>>
    /\ UNCHANGED <<projectsTable, toast, uploadVars, dashVars, reportVars, storeCall, moreVars>>

\* onChange of the year input, and the effect on formData.year.
Targets_setYear(year) ==
    /\ page = "Targets"
    /\ year # formData.year
    /\ Len(targetFetches) < MaxTargetFetches
    /\ formData' = [formData EXCEPT !.year = year]
    /\ targetFetches' = StartFetch(targetFetches, formData')
    /\ UNCHANGED <<targetsTable, existingTarget>>
    /\ UNCHANGED <<projectsTable, toast, pageVars, uploadVars, dashVars, reportVars, storeCall, moreVars>>

\* onChange of the five target inputs.
Targets_setTargets(edit) ==
    /\ page = "Targets"
    /\ formData' = [formData EXCEPT !.q1_target = edit[1], !.q2_target = edit[2],
                                    !.q3_target = edit[3], !.q4_target = edit[4],
                                    !.yearly_target = edit[5]]
    /\ UNCHANGED <<targetsTable, existingTarget, targetFetches>>
    /\ UNCHANGED <<projectsTable, toast, pageVars, uploadVars, dashVars, reportVars, storeCall, moreVars>>

\* The formData a fetchTarget call sets when it returns: the row's values, or
\* the call's own formData (of which year is its year) with the targets cleared.
FetchedFormData(year, data) ==
    IF data # <<>>
    THEN [year |-> toString(data[1].year),
          q1_target |-> NumberCell(data[1].q1_target),
          q2_target |-> NumberCell(data[1].q2_target),
          q3_target |-> NumberCell(data[1].q3_target),
          q4_target |-> NumberCell(data[1].q4_target),
          yearly_target |-> NumberCell(data[1].yearly_target)]
    ELSE [year |-> year, q1_target |-> EmptyCell, q2_target |-> EmptyCell,
          q3_target |-> EmptyCell, q4_target |-> EmptyCell, yearly_target |-> EmptyCell]

\* The rest of fetchTarget once the select of call i has answered (a select
\* that failed answers with data null), and the effect on formData.year if
\* the year it writes differs from the one shown.
Targets_fetchReturned(i, ok) ==
    /\ i \in DOMAIN targetFetches
    /\ LET year == targetFetches[i].year
           data == IF ok THEN SelectTarget(targetsTable, parseInt(year)) ELSE <<>>
           rest == SelectSeq([k \in DOMAIN targetFetches |->
                                 IF k = i THEN <<>> ELSE <<targetFetches[k]>>],
                             LAMBDA o : o # <<>>)
           others == [k \in DOMAIN rest |-> rest[k][1]]
       IN /\ existingTarget' = data
          /\ formData' = FetchedFormData(year, data)
          /\ targetFetches' = IF formData'.year # formData.year
                              THEN StartFetch(others, formData')
                              ELSE others
    /\ UNCHANGED targetsTable
    /\ UNCHANGED <<projectsTable, toast, pageVars, uploadVars, dashVars, reportVars, storeCall, moreVars>>

\* supabase.from("targets").update(values).eq("id", id)
UpdateTarget(table, id, values) ==
    [k \in DOMAIN table |->
        IF table[k].id = id
        THEN [table[k] EXCEPT !.q1_target = values.q1_target, !.q2_target = values.q2_target,
                              !.q3_target = values.q3_target, !.q4_target = values.q4_target,
                              !.yearly_target = values.yearly_target]
        ELSE table[k]]

\* Variant of InsertTarget without UNIQUE(year).
InsertTarget_noUnique(table, values) ==
    [error |-> FALSE,
     table |-> Append(table, TargetRow(Len(table) + 1, values.year, values.q1_target,
                                       values.q2_target, values.q3_target,
                                       values.q4_target, values.yearly_target.value))]

\* supabase.from("targets").insert([values]) under UNIQUE(year)
InsertTarget(table, values) ==
    IF \E k \in DOMAIN table : table[k].year = values.year
    THEN [error |-> TRUE, table |-> table]
    ELSE [error |-> FALSE,
          table |-> Append(table, TargetRow(Len(table) + 1, values.year, values.q1_target,
                                            values.q2_target, values.q3_target,
                                            values.q4_target, values.yearly_target.value))]

\* Targets.handleSubmit, up to and including the fetchTarget() it ends with.
Targets_handleSubmit(reached) ==
    /\ page = "Targets"
    /\ LET input == [year |-> parseInt(formData.year),
                     q1_target |-> ParseFloatOrZero(formData.q1_target),
                     q2_target |-> ParseFloatOrZero(formData.q2_target),
                     q3_target |-> ParseFloatOrZero(formData.q3_target),
                     q4_target |-> ParseFloatOrZero(formData.q4_target),
                     yearly_target |-> ParseFormNumber(formData.yearly_target)]
           issues == targetSchema_issues(input)
           r == IF ~reached THEN [error |-> TRUE, table |-> targetsTable]
                ELSE IF existingTarget # <<>>
                THEN [error |-> FALSE,
                      table |-> UpdateTarget(targetsTable, existingTarget[1].id,
                                             [input EXCEPT !.yearly_target = @.value])]
                ELSE InsertTarget(targetsTable, input)
       IN IF issues # <<>>
          THEN /\ toast' = <<Toast("error", issues[1], 0)>>
               /\ storeCall' = <<>>
               /\ UNCHANGED <<targetsTable, targetFetches>>
          ELSE /\ Len(targetFetches) < MaxTargetFetches
               /\ targetsTable' = r.table
               /\ storeCall' = <<[op |-> IF existingTarget # <<>> THEN "update" ELSE "insert",
                                  year |-> IF existingTarget # <<>> THEN existingTarget[1].year
                                           ELSE input.year,
                                  error |-> r.error]>>
               /\ toast' = <<IF r.error THEN Toast("error", "store error", 0)
                             ELSE IF existingTarget # <<>>
                             THEN Toast("success", "Target updated successfully", 0)
                             ELSE Toast("success", "Target created successfully", 0)>>
               /\ targetFetches' = IF r.error THEN targetFetches
                                   ELSE StartFetch(targetFetches, formData)
    /\ UNCHANGED <<formData, existingTarget>>
    /\ UNCHANGED <<projectsTable, pageVars, uploadVars, dashVars, reportVars, moreVars>>

InitTargets ==
    /\ projectsTable = <<>>
    /\ targetsTable \in TargetsInputs
    /\ toast = <<>>
    /\ PagesInit
    /\ ExcelUploadIdle
    /\ RestIdle

NextTargets ==
    \/ Targets_mount
    \/ \E year \in TargetYears : Targets_setYear(year)
    \/ \E edit \in TargetEdits : Targets_setTargets(edit)
    \/ \E i \in 1..MaxTargetFetches, ok \in BOOLEAN : Targets_fetchReturned(i, ok)
    \/ \E reached \in BOOLEAN : Targets_handleSubmit(reached)

SpecTargets == InitTargets /\ [][NextTargets]_vars

\* The Targets page with a user who only edits the year. A request to the
\* store is answered in the end, with data or with an error: the oldest
\* fetchTarget call in flight eventually returns, and so every call does.
Targets_yearEdit == \E year \in TargetYears : Targets_setYear(year)

NextTargetsFetching ==
    \/ Targets_mount
    \/ Targets_yearEdit
    \/ \E i \in 1..MaxTargetFetches, ok \in BOOLEAN : Targets_fetchReturned(i, ok)

SpecTargetsFetching ==
    /\ InitTargets
    /\ [][NextTargetsFetching]_vars
    /\ WF_vars(\E ok \in BOOLEAN : Targets_fetchReturned(1, ok))

----------------------------------------------------------------------------
(* unnamed/part_002: Reports filters and exportToCSV *)

MaxReportRows == 3

ReportCatalog ==
    { [pid |-> "P260001", business_partner |-> "Acme", end_user |-> "Bank",
       category |-> "LSC", product |-> "NetApp", pic |-> "Ani", nett_gp |-> 5,
       quarter |-> "Q1", year |-> 2026],
      [pid |-> "P260002", business_partner |-> "Acme, Inc", end_user |-> "Bank",
       category |-> "Maintenance", product |-> Null, pic |-> "Budi", nett_gp |-> 3,
       quarter |-> "Q2", year |-> 2026],
      [pid |-> "P250001", business_partner |-> "Acme", end_user |-> "Bank",
       category |-> "LSC", product |-> "", pic |-> "Ani", nett_gp |-> 2,
       quarter |-> "Q1", year |-> 2025] }

ReportTables == InjectiveSeqs(ReportCatalog, MaxReportRows)

\* A piece of the text of a file: a run of characters without comma or line
\* break, a comma, a line break, or the digits of a number.
Piece(text) == [text |-> text, num |-> 0]
Digits(n) == [text |-> "#", num |-> n]
Comma == Piece(",")
LineBreak == Piece("\n")

\* The text of a string value, cut at its commas.
PiecesOf(str) ==
    CASE str = "" -> <<>>
      [] str = Null -> <<>>
      [] str = Undefined -> <<>>
      [] str = "Acme, Inc" -> <<Piece("Acme"), Comma, Piece(" Inc")>>
      [] OTHER -> <<Piece(str)>>

\* Array.prototype.join on an array of texts.
RECURSIVE Join(_, _)
Join(texts, separator) ==
    IF texts = <<>> THEN <<>>
    ELSE IF Len(texts) = 1 THEN texts[1]
    ELSE texts[1] \o <<separator>> \o Join(Tail(texts), separator)

CsvHeaders ==
    <<"PID", "Business Partner", "End User", "Category", "Product", "PIC", "Nett GP",
      "Quarter", "Year">>

\* One element of csvData, each cell as the text join makes of it.
CsvCells(p) ==
    <<PiecesOf(p.pid), PiecesOf(p.business_partner), PiecesOf(p.end_user),
      PiecesOf(p.category), PiecesOf(OrElse(p.product, "")), PiecesOf(p.pic),
      <<Digits(p.nett_gp)>>, PiecesOf(p.quarter), <<Digits(p.year)>> >>

\* [headers, ...csvData].map((row) => row.join(",")).join("\n")
Reports_csv(list) ==
    LET rows == <<[k \in DOMAIN CsvHeaders |-> PiecesOf(CsvHeaders[k])]>>
                \o [k \in DOMAIN list |-> CsvCells(list[k])]
    IN Join([k \in DOMAIN rows |-> Join(rows[k], Comma)], LineBreak)

\* onValueChange of the three Selects, and the applyFilters effect.
Reports_setFilters(year, quarter, category) ==
    /\ page = "Reports" /\ ~loading /\ projects # <<>>
    /\ <<year, quarter, category>> # <<selectedYear, selectedQuarter, selectedCategory>>
    /\ selectedYear' = year
    /\ selectedQuarter' = quarter
    /\ selectedCategory' = category
    /\ filteredProjects' = Reports_applyFilters(projects[1], year, quarter, category)
    /\ UNCHANGED <<page, loading, projects, targetData, stats, topPics, topProducts,
                   picRankings, productRankings>>
    /\ UNCHANGED <<projectsTable, toast, uploadVars, dashVars, targetVars, storeCall,
                   download, profilesTable, backupData, isBackingUp, backupCall, now, stamps>>

\* Reports.exportToCSV
Reports_exportToCSV ==
    /\ page = "Reports" /\ ~loading
    /\ IF Len(filteredProjects) = 0
       THEN /\ toast' = <<Toast("error", "No data to export", 0)>>
            /\ UNCHANGED download
       ELSE /\ download' = <<[name |-> <<selectedYear, selectedQuarter, selectedCategory>>,
                              csv |-> Reports_csv(filteredProjects)]>>
            /\ toast' = <<Toast("success", "Report exported successfully", 0)>>
    /\ UNCHANGED <<projectsTable, pageVars, uploadVars, dashVars, targetVars, storeCall,
                   filteredProjects, selectedQuarter, selectedCategory,
                   profilesTable, backupData, isBackingUp, backupCall, now, stamps>>

InitReports ==
    /\ projectsTable \in ReportTables
    /\ targetsTable = <<>>
    /\ toast = <<>>
    /\ PagesInit
    /\ ExcelUploadIdle
    /\ RestIdle

NextReports ==
    \/ Reports_fetchProjects
    \/ \E message \in StoreErrors : Reports_fetchFailed(message)
    \/ \E year \in DashboardYears, quarter \in {"all", "Q1", "Q2"},
          category \in {"all", "LSC", "Maintenance"} :
          Reports_setFilters(year, quarter, category)
    \/ Reports_exportToCSV

SpecReports == InitReports /\ [][NextReports]_vars

----------------------------------------------------------------------------
(* created_at and updated_at of the rows of projects, targets and profiles *)

\* The clock is followed up to MaxClock, a table's rows up to MaxStampRows
\* over the three tables, a row's updates up to MaxRowUpdates.
MaxClock == 3
MaxStampRows == 2
MaxRowUpdates == 2

\* The timestamp columns of a new row: created_at and updated_at both
\* DEFAULT now(); no insert of the application names either column.
NewStamps(time) == [created_at |-> time, updated_at |-> time, updates |-> 0]

\* Variant of update_updated_at_column that keeps the old updated_at.
update_updated_at_column_keepOld(row, time) == row

\* BEFORE UPDATE trigger function: NEW.updated_at = now(); RETURN NEW.
update_updated_at_column(row, time) == [row EXCEPT !.updated_at = time]

\* Time passes; now() never runs backwards.
Clock_tick ==
    /\ now < MaxClock
    /\ now' = now + 1
    /\ UNCHANGED <<projectsTable, toast, pageVars, uploadVars, dashVars, targetVars,
                   reportVars, storeCall, download, profilesTable, backupData,
                   isBackingUp, backupCall, stamps>>

\* INSERT of a row into one of the three tables.
Stamps_insert(t) ==
    /\ Len(stamps["projects"]) + Len(stamps["targets"]) + Len(stamps["profiles"])
         < MaxStampRows
    /\ stamps' = [stamps EXCEPT ![t] = Append(@, NewStamps(now))]
    /\ UNCHANGED <<projectsTable, toast, pageVars, uploadVars, dashVars, targetVars,
                   reportVars, storeCall, download, profilesTable, backupData,
                   isBackingUp, backupCall, now>>

\* UPDATE of row i of one of the three tables: the update's payload changes
\* other columns, then the table's BEFORE UPDATE trigger runs.
Stamps_update(t, i) ==
    /\ i \in 1..Len(stamps[t])
    /\ stamps[t][i].updates < MaxRowUpdates
    /\ stamps' = [stamps EXCEPT ![t][i] =
                     update_updated_at_column([@ EXCEPT !.updates = @ + 1], now)]
    /\ UNCHANGED <<projectsTable, toast, pageVars, uploadVars, dashVars, targetVars,
                   reportVars, storeCall, download, profilesTable, backupData,
                   isBackingUp, backupCall, now>>

InitTimestamps ==
    /\ projectsTable = <<>>
    /\ targetsTable = <<>>
    /\ toast = <<>>
    /\ PagesInit
    /\ ExcelUploadIdle
    /\ RestIdle

NextTimestamps ==
    \/ Clock_tick
    \/ \E t \in TableNames : Stamps_insert(t)
    \/ \E t \in TableNames, i \in 1..MaxStampRows : Stamps_update(t, i)

SpecTimestamps == InitTimestamps /\ [][NextTimestamps]_vars

----------------------------------------------------------------------------
(* utils/backup-database.ts and pages/BackupDatabase.tsx *)

MaxProfiles == 2

\* Tables of profiles, in ascending order of created_at.
ProfileTables ==
    { [i \in 1..n |-> [id |-> i, email |-> "user@example.com", role |-> "user"]] :
        n \in 0..MaxProfiles }

BackupProjects == {<<>>, StoredBefore}

\* Tables of targets, one of them created in descending order of year.
BackupTargets ==
    TargetsInputs
    \cup { <<TargetRow(1, 2026, 1, 1, 1, 1, 4), TargetRow(2, 2025, 2, 1, 0, 3, 6)>> }

\* .order("year", { ascending: true }) on targets, where year is unique.
OrderByYearAsc(table) ==
    LET n == Len(table)
        pos(i) == 1 + Cardinality({ j \in 1..n : table[j].year < table[i].year })
    IN [p \in 1..n |-> table[CHOOSE i \in 1..n : pos(i) = p]]

\* The BackupData object backupDatabase builds from the three answers (its
\* timestamp is left out).
backupDatabase_data(ps, ts, fs) ==
    [projects |-> ps, targets |-> ts, profiles |-> fs,
     metadata |-> [totalRecords |-> Len(ps) + Len(ts) + Len(fs),
                   tables |-> <<"projects", "targets", "profiles">>]]

\* A call of backupDatabase: the select it awaits, the answers it has, and
\* once it has returned whether a select failed and the value returned.
BackupCall(step, ps, ts, failed, value) ==
    [step |-> step, projects |-> ps, targets |-> ts, failed |-> failed, result |-> value]

\* catch (error) { return null }
backupDatabase_failed == BackupCall("returned", <<>>, <<>>, TRUE, <<>>)

\* handleBackup up to the await of backupDatabase(), which starts with the
\* select on projects. The button is disabled while isBackingUp.
BackupDatabase_handleBackup ==
    /\ ~isBackingUp
    /\ isBackingUp' = TRUE
    /\ backupCall' = <<BackupCall("projects", <<>>, <<>>, FALSE, <<>>)>>
    /\ UNCHANGED <<projectsTable, toast, pageVars, uploadVars, dashVars, targetVars,
                   reportVars, storeCall, download, profilesTable, backupData, now, stamps>>

\* The select on projects has answered: throw on error, else go on to targets.
backupDatabase_projectsFetched(ok) ==
    /\ backupCall # <<>> /\ backupCall[1].step = "projects"
    /\ backupCall' = IF ok THEN <<BackupCall("targets", projectsTable, <<>>, FALSE, <<>>)>>
                      ELSE <<backupDatabase_failed>>
    /\ UNCHANGED <<projectsTable, toast, pageVars, uploadVars, dashVars, targetVars,
                   reportVars, storeCall, download, profilesTable, backupData,
                   isBackingUp, now, stamps>>

\* The select on targets has answered: throw on error, else go on to profiles.
backupDatabase_targetsFetched(ok) ==
    /\ backupCall # <<>> /\ backupCall[1].step = "targets"
    /\ backupCall' = IF ok THEN <<BackupCall("profiles", backupCall[1].projects,
                                             OrderByYearAsc(targetsTable), FALSE, <<>>)>>
                      ELSE <<backupDatabase_failed>>
    /\ UNCHANGED <<projectsTable, toast, pageVars, uploadVars, dashVars, targetVars,
                   reportVars, storeCall, download, profilesTable, backupData,
                   isBackingUp, now, stamps>>

\* The select on profiles has answered: throw on error, else return the backup.
backupDatabase_profilesFetched(ok) ==
    /\ backupCall # <<>> /\ backupCall[1].step = "profiles"
    /\ backupCall' =
          IF ok
          THEN <<BackupCall("returned", backupCall[1].projects, backupCall[1].targets, FALSE,
                            <<backupDatabase_data(backupCall[1].projects,
                                                  backupCall[1].targets, profilesTable)>>)>>
          ELSE <<backupDatabase_failed>>
    /\ UNCHANGED <<projectsTable, toast, pageVars, uploadVars, dashVars, targetVars,
                   reportVars, storeCall, download, profilesTable, backupData,
                   isBackingUp, now, stamps>>

\* Variant of BackupDatabase_backupData that forgets the backup when a later one fails.
BackupDatabase_backupData_cleared(data, previous) == data

\* if (data) setBackupData(data): the page's backupData after a call returned data.
BackupDatabase_backupData(data, previous) == IF data # <<>> THEN data ELSE previous

\* handleBackup after the await.
BackupDatabase_backupReturned ==
    /\ backupCall # <<>> /\ backupCall[1].step = "returned"
    /\ backupData' = BackupDatabase_backupData(backupCall[1].result, backupData)
    /\ toast' = IF backupCall[1].result # <<>>
                THEN <<Toast("success", "Backup Created",
                             backupCall[1].result[1].metadata.totalRecords)>>
                ELSE <<Toast("error", "Backup Failed", 0)>>
    /\ isBackingUp' = FALSE
    /\ backupCall' = <<>>
    /\ UNCHANGED <<projectsTable, pageVars, uploadVars, dashVars, targetVars,
                   reportVars, storeCall, download, profilesTable, now, stamps>>

\* Between two backups the tables change; no writer is followed while a
\* backup runs.
Backup_tablesChange(ps, ts, fs) ==
    /\ backupCall = <<>>
    /\ <<ps, ts, fs>> # <<projectsTable, targetsTable, profilesTable>>
    /\ projectsTable' = ps
    /\ targetsTable' = ts
    /\ profilesTable' = fs
    /\ UNCHANGED <<toast, pageVars, uploadVars, dashVars, formData, existingTarget,
                   targetFetches, reportVars, storeCall, download, backupData,
                   isBackingUp, backupCall, now, stamps>>

InitBackup ==
    /\ projectsTable \in BackupProjects
    /\ targetsTable \in BackupTargets
    /\ toast = <<>>
    /\ PagesInit
    /\ ExcelUploadIdle
    /\ RestIdle

NextBackup ==
    \/ BackupDatabase_handleBackup
    \/ \E ok \in BOOLEAN : backupDatabase_projectsFetched(ok)
    \/ \E ok \in BOOLEAN : backupDatabase_targetsFetched(ok)
    \/ \E ok \in BOOLEAN : backupDatabase_profilesFetched(ok)
    \/ BackupDatabase_backupReturned
    \/ \E ps \in BackupProjects, ts \in BackupTargets, fs \in ProfileTables :
          Backup_tablesChange(ps, ts, fs)

SpecBackup == InitBackup /\ [][NextBackup]_vars

----------------------------------------------------------------------------
(* Properties *)

RECURSIVE SumSeq(_)
SumSeq(s) == IF s = <<>> THEN 0 ELSE s[1] + SumSeq(Tail(s))

\* The rows the mounted page computed its state from.
Rows == projects[1]

RowsTotal == SumSeq([i \in 1..Len(Rows) |-> Rows[i].nett_gp])

DashboardLoaded == page = "Dashboard" /\ projects # <<>>
TopPicsLoaded == page = "TopPics" /\ projects # <<>>
TopProductsLoaded == page = "TopProducts" /\ projects # <<>>

\* The grouping keys of the rows: the pic or product with a missing or empty
\* value replaced by "N/A", and the pic as stored.
NormalizedPicKeys == { IF Rows[i].pic \in Falsy THEN "N/A" ELSE Rows[i].pic : i \in 1..Len(Rows) }
NormalizedProductKeys ==
    { IF Rows[i].product \in Falsy THEN "N/A" ELSE Rows[i].product : i \in 1..Len(Rows) }
StoredPicKeys == { Rows[i].pic : i \in 1..Len(Rows) }

SortedByTotalIncome(r) ==
    \A i \in 1..(Len(r) - 1) : r[i].totalIncome >= r[i + 1].totalIncome

\* r has min(5, nKeys) entries in descending order of totalIncome.
IsTopFive(r, nKeys) ==
    /\ Len(r) = (IF nKeys < 5 THEN nKeys ELSE 5)
    /\ SortedByTotalIncome(r)

\* The entries of r account for every row once.
CoversRows(r) ==
    /\ SumSeq([i \in 1..Len(r) |-> r[i].totalIncome]) = RowsTotal
    /\ SumSeq([i \in 1..Len(r) |-> r[i].projectCount]) = Len(Rows)

\* C1: when every row's quarter is one of Q1..Q4, the incomes of the
\* quarterlyData entries add up to totalIncome, the sum of the rows' nett_gp.
C1_QuarterlyIncomesSumToTotal ==
    DashboardLoaded =>
        /\ stats.totalIncome = RowsTotal
        /\ SumSeq([i \in 1..Len(stats.quarterlyData) |-> stats.quarterlyData[i].income])
             = stats.totalIncome

C1_Witness ==
    /\ DashboardLoaded
    /\ \E i, j \in 1..Len(stats.quarterlyData) :
          /\ i # j
          /\ stats.quarterlyData[i].income > 0
          /\ stats.quarterlyData[j].income > 0
          /\ stats.quarterlyData[i].income + stats.quarterlyData[j].income < stats.totalIncome

\* C2: the values of the categoryData entries add up to totalIncome.
C2_CategoryValuesSumToTotal ==
    DashboardLoaded =>
        SumSeq([i \in 1..Len(stats.categoryData) |-> stats.categoryData[i].value])
          = stats.totalIncome

C2_Witness ==
    /\ DashboardLoaded
    /\ Len(stats.categoryData) >= 2
    /\ Len(Rows) > Len(stats.categoryData)

\* C3: gap = target - totalIncome, so it is negative when totalIncome exceeds
\* the target; target is the target row's yearly_target, and without a target
\* row target = 0 and gap = 0 - totalIncome.
C3_GapIsTargetMinusIncome ==
    DashboardLoaded =>
        /\ stats.gap = stats.target - stats.totalIncome
        /\ stats.totalIncome > stats.target => stats.gap < 0
        /\ targetData # <<>> => stats.target = targetData[1].yearly_target
        /\ targetData = <<>> => stats.target = 0 /\ stats.gap = 0 - stats.totalIncome

C3_Witness ==
    /\ DashboardLoaded
    /\ targetData # <<>>
    /\ stats.target > 0
    /\ stats.gap < 0

\* C4: achievement is 0 when the target is 0 or there is no target row,
\* whatever totalIncome is; with a positive target,
\* achievement * target = totalIncome * 100.
C4_AchievementOfTarget ==
    DashboardLoaded =>
        /\ stats.target = 0 => stats.achievement.num = 0
        /\ stats.target > 0 =>
             stats.achievement.num * stats.target
               = stats.totalIncome * 100 * stats.achievement.den

C4_Witness ==
    /\ DashboardLoaded
    /\ targetData # <<>>
    /\ stats.target = 0
    /\ stats.totalIncome > 0
    /\ stats.achievement.num = 0

\* C5: every ranking has min(5, number of distinct keys) entries and each
\* entry's totalIncome is at least that of the entry after it.
C5_RankingsAreTopFiveSorted ==
    /\ DashboardLoaded =>
         /\ IsTopFive(topPics, Cardinality(NormalizedPicKeys))
         /\ IsTopFive(topProducts, Cardinality(NormalizedProductKeys))
    /\ TopPicsLoaded => IsTopFive(picRankings, Cardinality(StoredPicKeys))
    /\ TopProductsLoaded =>
         IsTopFive(productRankings, Cardinality(NormalizedProductKeys))

C5_Witness ==
    /\ DashboardLoaded
    /\ Cardinality(NormalizedPicKeys) > 5
    /\ Cardinality(NormalizedProductKeys) > 5
    /\ Len(topPics) = 5
    /\ Len(topProducts) = 5
    /\ topPics[1].totalIncome > topPics[5].totalIncome

\* C6: on the TopProducts page, the incomes of an entry's per-PIC breakdown
\* add up to the entry's totalIncome, and the breakdown is in descending
\* order of income.
C6_PicBreakdownSumsAndSorted ==
    TopProductsLoaded =>
        \A k \in 1..Len(productRankings) :
            LET pics == productRankings[k].pics
            IN /\ SumSeq([i \in 1..Len(pics) |-> pics[i].income])
                    = productRankings[k].totalIncome
               /\ \A i \in 1..(Len(pics) - 1) : pics[i].income >= pics[i + 1].income

\* An entry of three rows whose first row's PIC ends up second.
C6_Witness ==
    /\ TopProductsLoaded
    /\ \E k \in 1..Len(productRankings) :
          LET e == productRankings[k]
              first == CHOOSE i \in 1..Len(Rows) :
                          /\ OrElse(Rows[i].product, "N/A") = e.product
                          /\ \A j \in 1..(i - 1) : OrElse(Rows[j].product, "N/A") # e.product
          IN /\ e.projectCount = 3
             /\ Len(e.pics) = 2
             /\ e.pics[1].income > e.pics[2].income
             /\ e.pics[2].pic = Rows[first].pic

\* C7: with at most 5 distinct keys, the totalIncome values of a ranking add
\* up to the rows' total income and the projectCount values to the number of
\* rows.
C7_RankingsPartitionRows ==
    /\ (DashboardLoaded /\ Cardinality(NormalizedPicKeys) <= 5) => CoversRows(topPics)
    /\ (DashboardLoaded /\ Cardinality(NormalizedProductKeys) <= 5) => CoversRows(topProducts)
    /\ (TopPicsLoaded /\ Cardinality(StoredPicKeys) <= 5) => CoversRows(picRankings)
    /\ (TopProductsLoaded /\ Cardinality(NormalizedProductKeys) <= 5) =>
         CoversRows(productRankings)

C7_Witness ==
    /\ TopPicsLoaded
    /\ Cardinality(StoredPicKeys) <= 5
    /\ Len(picRankings) >= 2
    /\ \E i \in 1..Len(picRankings) : picRankings[i].projectCount >= 2

\* C8: an empty list of rows gives totalIncome = 0, the four quarterly
\* entries Q1..Q4 with income 0, no category entry and empty rankings.
C8_EmptyInput ==
    /\ (DashboardLoaded /\ Rows = <<>>) =>
         /\ stats.totalIncome = 0
         /\ Len(stats.quarterlyData) = 4
         /\ \A i \in 1..4 :
               /\ stats.quarterlyData[i].quarter = QuarterLabels[i]
               /\ stats.quarterlyData[i].income = 0
         /\ stats.categoryData = <<>>
         /\ topPics = <<>>
         /\ topProducts = <<>>
    /\ (TopPicsLoaded /\ Rows = <<>>) => picRankings = <<>>
    /\ (TopProductsLoaded /\ Rows = <<>>) => productRankings = <<>>

\* The table has rows, none of them of the selected year.
C8_Witness ==
    /\ DashboardLoaded
    /\ Rows = <<>>
    /\ projectsTable # <<>>
    /\ targetData # <<>>

\* The rows without a product, and whether r has them all in one "N/A" entry.
RowsWithoutProduct == { i \in 1..Len(Rows) : Rows[i].product \in Falsy \cup {"N/A"} }

CountsMissingProductsAsNA(r) ==
    /\ \A k \in 1..Len(r) : r[k].product \notin Falsy
    /\ \A k \in 1..Len(r) :
          r[k].product = "N/A" =>
             /\ r[k].projectCount = Cardinality(RowsWithoutProduct)
             /\ r[k].totalIncome =
                  SumSeq([i \in 1..Len(Rows) |->
                            IF i \in RowsWithoutProduct THEN Rows[i].nett_gp ELSE 0])
    /\ (RowsWithoutProduct # {} /\ Cardinality(NormalizedProductKeys) <= 5) =>
          \E k \in 1..Len(r) : r[k].product = "N/A"

\* C9: in the product rankings the rows whose product is "", null or
\* undefined are all counted in the one entry with key "N/A".
C9_MissingProductIsNA ==
    /\ DashboardLoaded => CountsMissingProductsAsNA(topProducts)
    /\ TopProductsLoaded => CountsMissingProductsAsNA(productRankings)

C9_Witness ==
    /\ TopProductsLoaded
    /\ { Rows[i].product : i \in RowsWithoutProduct } = Falsy
    /\ \E k \in 1..Len(productRankings) :
          /\ productRankings[k].product = "N/A"
          /\ productRankings[k].projectCount = 3

\* C10: in every ranking, the TopPics page's included, a row whose key is
\* missing or empty is counted under "N/A": no entry has a missing or empty key.
C10_MissingKeyIsNA ==
    /\ DashboardLoaded =>
         /\ \A k \in 1..Len(topPics) : topPics[k].pic \notin Falsy
         /\ \A k \in 1..Len(topProducts) : topProducts[k].product \notin Falsy
    /\ TopPicsLoaded => \A k \in 1..Len(picRankings) : picRankings[k].pic \notin Falsy
    /\ TopProductsLoaded =>
         \A k \in 1..Len(productRankings) : productRankings[k].product \notin Falsy

\* The rows of the mounted page in ascending order of id: one fixed
\* arrangement of the same rows.
CanonicalRows == OrderedById({ Rows[i] : i \in 1..Len(Rows) }, TRUE)

SeqToSet(q) == { q[i] : i \in 1..Len(q) }

\* The total income of the rows grouped under a PIC key or a product key.
PicGroupTotal(k) ==
    SumSeq([i \in 1..Len(Rows) |->
              IF (IF Rows[i].pic \in Falsy THEN "N/A" ELSE Rows[i].pic) = k
              THEN Rows[i].nett_gp ELSE 0])

ProductGroupTotal(k) ==
    SumSeq([i \in 1..Len(Rows) |->
              IF (IF Rows[i].product \in Falsy THEN "N/A" ELSE Rows[i].product) = k
              THEN Rows[i].nett_gp ELSE 0])

NoPicTies ==
    \A k1, k2 \in NormalizedPicKeys : k1 # k2 => PicGroupTotal(k1) # PicGroupTotal(k2)

NoProductTies ==
    \A k1, k2 \in NormalizedProductKeys :
        k1 # k2 => ProductGroupTotal(k1) # ProductGroupTotal(k2)

\* The parts of the dashboard's state that C11 holds in both its forms.
OrderIndependentParts ==
    LET canonical == Dashboard_stats(CanonicalRows, targetData)
    IN /\ stats.totalIncome = canonical.totalIncome
       /\ stats.achievement = canonical.achievement
       /\ stats.gap = canonical.gap
       /\ stats.quarterlyData = canonical.quarterlyData
       /\ NoPicTies => topPics = Dashboard_topPicsArray(CanonicalRows)
       /\ NoProductTies => topProducts = Dashboard_topProductsArray(CanonicalRows)

\* C11 (as stated): whatever the order of the rows, totalIncome, achievement,
\* gap, quarterlyData and categoryData are those of the rows in ascending
\* order of id, and so are the rankings unless two groups have equal totals.
C11_OrderIndependent_Original ==
    DashboardLoaded =>
        /\ OrderIndependentParts
        /\ stats.categoryData = Dashboard_categoryData(CanonicalRows)

\* C11 (amended): as above, except that categoryData holds the same entries
\* in an order that follows the rows (first occurrence of each category).
C11_OrderIndependentUpToCategoryOrder ==
    DashboardLoaded =>
        /\ OrderIndependentParts
        /\ Len(stats.categoryData) = Len(Dashboard_categoryData(CanonicalRows))
        /\ SeqToSet(stats.categoryData) = SeqToSet(Dashboard_categoryData(CanonicalRows))

C11_Witness ==
    /\ DashboardLoaded
    /\ Rows # CanonicalRows
    /\ NoPicTies
    /\ NoProductTies
    /\ Len(topPics) >= 3
    /\ stats.target > 0
    /\ stats.categoryData # Dashboard_categoryData(CanonicalRows)

\* The rows of a sheet file as parseExcelFile reads them, and whether each is valid.
InputsOf(f) == [i \in DOMAIN f.rows |-> RowInput(f.rows[i])]
RowIsValid(input) == projectSchema_issues(input) = <<>>
AllRowsValid(f) ==
    f.content = "sheet" /\ f.rows # <<>> /\ \A i \in DOMAIN f.rows : RowIsValid(InputsOf(f)[i])

\* The whole batch of a file, as the store keeps it after the import.
BatchOf(f) ==
    [i \in DOMAIN f.rows |->
        set_project_pid(<<>>, [ProjectData(InputsOf(f)[i]) EXCEPT !.product = OrElse(@, Null)])]

ParseIsAllOrNothing(f, r) ==
    /\ r.success <=> AllRowsValid(f)
    /\ r.success => r.data = <<[i \in DOMAIN f.rows |-> ProjectData(InputsOf(f)[i])]>>
    /\ ~r.success => r.data = <<>> /\ r.errors # <<>> /\ r.errors[1] # <<>>

\* The rows the store gained since the import page was opened.
Imported == SelectSeq(projectsTable, LAMBDA row : row.created = NowYear)

WholeBatches ==
    LET valid == { i \in 1..2 : AllRowsValid(disk[i]) }
    IN {<<>>} \cup { BatchOf(disk[i]) : i \in valid }
              \cup { BatchOf(disk[i]) \o BatchOf(disk[j]) : i, j \in valid }

\* C12: bulk import is all-or-nothing. parseExcelFile succeeds, with every row
\* of the sheet as data, exactly when no row has a validation error, and
\* otherwise returns errors and no data; whatever the store gained from the
\* import is a sequence of whole batches of files, never a part of one.
C12_ImportIsAllOrNothing ==
    /\ \A i \in 1..2 : ParseIsAllOrNothing(disk[i], parseExcelFile(disk[i]))
    /\ result # <<>> => \E i \in 1..2 : result[1] = parseExcelFile(disk[i])
    /\ preview # <<>> => \E i \in 1..2 : AllRowsValid(disk[i]) /\ UploadRows(preview) = UploadRows(parseExcelFile(disk[i]).data[1])
    /\ Imported \in WholeBatches

\* A batch of two rows was imported, an upload of the other file was refused
\* by the store, and the file parsed last was rejected with errors.
C12_Witness ==
    /\ Len(Imported) >= 2
    /\ toast # <<>> /\ toast[1].message = "Failed to upload projects"
    /\ file # <<>> /\ AllRowsValid(file[1]) /\ preview # <<>>
    /\ \E i \in 1..2 : ~AllRowsValid(disk[i]) /\ Len(disk[i].rows) >= 2

\* The sheet row numbers of the invalid rows of f, in row order: the row at
\* 0-based index i - 1 is sheet row i + 1.
InvalidRowNumbers(f) ==
    LET indices == [i \in DOMAIN f.rows |-> i]
        invalid == SelectSeq(indices, LAMBDA i : ~RowIsValid(InputsOf(f)[i]))
    IN [k \in DOMAIN invalid |-> (invalid[k] - 1) + 2]

ErrorsArePerInvalidRow(f, list) ==
    /\ [k \in DOMAIN list |-> list[k].row] = InvalidRowNumbers(f)
    /\ \A k \in DOMAIN list :
          /\ list[k].text # <<>>
          /\ list[k].text = projectSchema_issues(InputsOf(f)[list[k].row - 1])

\* C13: parseExcelFile validates every row of a sheet, also after an earlier
\* row failed: the error list has exactly one entry per invalid row, in row
\* order, each labelled with the row's 0-based index + 2; that list is what a
\* sheet with an invalid row returns and what ExcelUpload then shows.
C13_OneErrorPerInvalidRow ==
    /\ \A i \in 1..2 :
          disk[i].content = "sheet" =>
             LET list == parseExcelFile_rows(disk[i].rows).errors
             IN /\ ErrorsArePerInvalidRow(disk[i], list)
                /\ list # <<>> => parseExcelFile(disk[i]).errors = <<list>>
    /\ (errors # <<>> /\ errors[1].row # 0) =>
          \E i \in 1..2 : ErrorsArePerInvalidRow(disk[i], errors)

\* The page shows the errors of a sheet whose rows 2 and 4 are invalid and
\* whose row 3, between them, is valid.
C13_Witness ==
    /\ Len(errors) = 2 /\ errors[1].row = 2 /\ errors[2].row = 4
    /\ Len(errors[2].text) >= 2
    /\ file # <<>> /\ Len(file[1].rows) = 3 /\ RowIsValid(InputsOf(file[1])[2])

AnalysisFailed ==
    /\ analysisCall # <<>> /\ analysisCall[1].replied
    /\ analysisCall[1].status # 200
    /\ analysisCall' = <<>>

\* C14: when the narrative analysis fails (429, 402, any other error of the
\* function or the gateway, or a call that never reached the function), the
\* step that handles the failure leaves stats, topPics and topProducts as
\* they were, sets analysis to the placeholder message and analyzingData to false.
C14_AnalysisFailureIsIsolated ==
    [][AnalysisFailed =>
          /\ stats' = stats /\ topPics' = topPics /\ topProducts' = topProducts
          /\ analysis' = AnalysisPlaceholder
          /\ analyzingData' = FALSE]_vars

\* A failed analysis was handled on a dashboard that shows figures.
C14_Witness ==
    /\ analysis = AnalysisPlaceholder /\ ~analyzingData /\ analysisCall = <<>>
    /\ stats.totalIncome > 0 /\ topPics # <<>> /\ topProducts # <<>>

AllFetchesApplied ==
    page = "Dashboard" /\ fetches # <<>> /\ \A i \in DOMAIN fetches : fetches[i].state = "applied"

ShowsSelectedYear ==
    LET data == SelectProjects(projectsTable, selectedYear)
        target == SelectTarget(targetsTable, parseInt(selectedYear))
    IN /\ stats = Dashboard_stats(data, target)
       /\ topPics = Dashboard_topPicsArray(data)
       /\ topProducts = Dashboard_topProductsArray(data)

\* C16: when the selected year changes while an earlier dashboard fetch is in
\* flight, the stale result is not applied: once every fetch has returned
\* with data, in any order, stats, topPics and topProducts are those of the
\* most recently selected year.
C16_StaleFetchNotApplied == AllFetchesApplied => ShowsSelectedYear

\* The page's fetch has returned without data.
FetchFailed == page # "none" /\ ~loading /\ projects = <<>>

\* C15: whenever a fetch from the store fails, on the Dashboard, TopPics,
\* TopProducts, Projects and Reports pages alike, the user is shown a failure
\* message.
C15_FetchFailureIsShown ==
    FetchFailed => toast # <<>> /\ toast[1].kind = "error"

\* C17: after any sequence of project creations, updates and deletions, no
\* two projects in the store have the same pid.
C17_PidIsUnique ==
    \A i, j \in DOMAIN projectsTable : i # j => projectsTable[i].pid # projectsTable[j].pid

\* The store is full and has just refused a call that gave an existing pid.
C17_Witness ==
    /\ Len(projectsTable) = MaxProjects
    /\ storeCall # <<>> /\ storeCall[1].error /\ storeCall[1].op \in {"insert", "update"}
    /\ \E i \in DOMAIN projectsTable :
          /\ storeCall[1].rows[1].pid = projectsTable[i].pid
          /\ storeCall[1].rows[1].category \in CategoryEnum

\* A pid of the form 'P' + 2-digit year + 4-digit sequence number.
IsGeneratedPid(pid) ==
    Len(pid) = 3 /\ pid[1] = "P" /\ pid[2] = NowYear % 100 /\ pid[3] \in 1..(PidLimit - 1)

\* The step is the creation of one project that satisfies the table's CHECKs.
Creates(row) ==
    /\ storeCall' # <<>> /\ storeCall'[1].op = "insert" /\ storeCall'[1].rows = <<row>>
    /\ row.category \in CategoryEnum

StoredAsLast(row, pid) ==
    /\ Len(projectsTable') = Len(projectsTable) + 1
    /\ projectsTable'[Len(projectsTable')] = set_project_pid(<<>>, [row EXCEPT !.pid = pid])
    /\ \A i \in DOMAIN projectsTable : projectsTable'[i] = projectsTable[i]

\* C18: creating a project with a null or empty pid, after any sequence of
\* earlier creations and deletions, stores the project under an auto-assigned
\* pid of the form 'P' + 2-digit year + 4-digit zero-padded sequence number.
C18_BlankPidIsAssigned ==
    [][\A row \in DirectRows :
          (Creates(row) /\ BlankPid(row.pid)) =>
             \E n \in 1..(PidLimit - 1) : StoredAsLast(row, PidOf(NowYear % 100, n))]_vars

ValidationMessages ==
    {"PID is required", "Business Partner is required", "End User is required",
     "Invalid enum value", "PIC is required", "Nett GP must be positive",
     "Expected number, received nan"}

SubmissionRejected == toast # <<>> /\ toast[1].message \in ValidationMessages

\* C19: the project form, with the table's constraints behind it, never
\* stores a project whose category is outside {Implementation, Maintenance,
\* LSC}, whose quarter is outside {Q1..Q4}, or whose nett_gp is not positive;
\* a submission the form rejects sends no insert or update to the store.
C19_OnlyValidProjectsAreStored ==
    /\ \A i \in DOMAIN projectsTable :
          /\ projectsTable[i].category \in CategoryEnum
          /\ projectsTable[i].quarter \in QuarterEnum
          /\ projectsTable[i].nett_gp > 0
    /\ SubmissionRejected => storeCall = <<>>

\* With two projects stored, a submission with a nett_gp that is not positive
\* was rejected.
C19_Witness ==
    /\ Len(projectsTable) >= 2
    /\ toast # <<>> /\ toast[1].message = "Nett GP must be positive"
    /\ storeCall = <<>>

TargetValidationMessages ==
    {"Number must be greater than or equal to 0", "Yearly target must be positive",
     "Expected number, received nan"}

TargetRejected == toast # <<>> /\ toast[1].message \in TargetValidationMessages

\* C20: after any sequence of target form submissions there is at most one
\* target record per year, no record holds a yearly target that is not
\* positive or a negative quarterly target, and a submission the form rejects
\* for such a value writes nothing to the store.
C20_OneValidTargetPerYear ==
    /\ \A i, j \in DOMAIN targetsTable :
          i # j => targetsTable[i].year # targetsTable[j].year
    /\ \A i \in DOMAIN targetsTable :
          /\ targetsTable[i].yearly_target > 0
          /\ targetsTable[i].q1_target >= 0 /\ targetsTable[i].q2_target >= 0
          /\ targetsTable[i].q3_target >= 0 /\ targetsTable[i].q4_target >= 0
    /\ TargetRejected => storeCall = <<>>

\* Two years have a target, one of them created through the form, and a
\* submission with a yearly target that is not positive was rejected.
C20_Witness ==
    /\ Len(targetsTable) = 2
    /\ \E i \in DOMAIN targetsTable : targetsTable[i].yearly_target = 9
    /\ toast # <<>> /\ toast[1].message = "Yearly target must be positive"
    /\ storeCall = <<>>

\* C21: a project whose year is not an integer in 2000..2100 is rejected with
\* a validation message and not stored, in the manual project form as in the
\* bulk import: no project in the store has a year outside that range.
C21_YearOutOfRangeIsRejected ==
    \A i \in DOMAIN projectsTable :
       projectsTable[i].year >= MinYear /\ projectsTable[i].year <= MaxYear

\* The parts of a text between the occurrences of a separator.
RECURSIVE SplitOn(_, _)
SplitOn(text, separator) ==
    IF text = <<>> THEN << <<>> >>
    ELSE LET rest == SplitOn(Tail(text), separator)
         IN IF Head(text) = separator THEN << <<>> >> \o rest
            ELSE << <<Head(text)>> \o rest[1] >> \o Tail(rest)

MatchesFilters(p) ==
    /\ toString(p.year) = selectedYear
    /\ selectedQuarter = "all" \/ p.quarter = selectedQuarter
    /\ selectedCategory = "all" \/ p.category = selectedCategory

FilteredSetIsCurrent ==
    (page = "Reports" /\ projects # <<>>) =>
       filteredProjects = SelectSeq(projects[1], MatchesFilters)

\* The step is a call of exportToCSV.
ExportStep ==
    /\ page = "Reports"
    /\ UNCHANGED <<projects, filteredProjects, selectedYear, selectedQuarter, selectedCategory>>
    /\ download' # download \/ toast' # toast

\* The file has a header line and then, per project of the list and in its
\* order, a line of exactly 9 comma-separated fields holding its values.
IsCsvOf(csv, list) ==
    LET lines == SplitOn(csv, LineBreak)
    IN /\ Len(lines) = 1 + Len(list)
       /\ SplitOn(lines[1], Comma) = [k \in DOMAIN CsvHeaders |-> <<Piece(CsvHeaders[k])>>]
       /\ \A k \in DOMAIN list :
             LET fields == SplitOn(lines[k + 1], Comma)
             IN /\ Len(fields) = 9
                /\ fields = CsvCells(list[k])

\* C22: Reports.exportToCSV serializes exactly the currently filtered record
\* set: the filtered set is the fetched projects that match the selected year,
\* quarter and category; the CSV has one header row followed by one row of 9
\* comma-separated fields per filtered project, in the same order; with an
\* empty filtered set no file is produced and an error is shown.
C22_ExportIsFilteredSet ==
    /\ []FilteredSetIsCurrent
    /\ [][ExportStep =>
            IF filteredProjects = <<>>
            THEN download' = download /\ toast'[1].kind = "error"
            ELSE download' # <<>> /\ IsCsvOf(download'[1].csv, filteredProjects)]_vars

\* The index in the fetched rows of the first row of a category.
FirstRowOfCategory(name) == CHOOSE i \in 1..Len(Rows) :
    /\ Rows[i].category = name
    /\ \A j \in 1..(i - 1) : Rows[j].category # name

\* C23: categoryData lists exactly the distinct categories of the rows, each
\* once, in the order of their first occurrence in the rows; a category
\* without rows does not appear.
C23_CategoriesInFirstSeenOrder ==
    DashboardLoaded =>
        LET names == [i \in 1..Len(stats.categoryData) |-> stats.categoryData[i].name]
        IN /\ SeqToSet(names) = { Rows[i].category : i \in 1..Len(Rows) }
           /\ \A i, j \in 1..Len(names) : i # j => names[i] # names[j]
           /\ \A i, j \in 1..Len(names) :
                 i < j => FirstRowOfCategory(names[i]) < FirstRowOfCategory(names[j])

\* Two categories, the first of them met again after the other; the third
\* category of the schema has no row.
C23_Witness ==
    /\ DashboardLoaded
    /\ Len(stats.categoryData) = 2
    /\ Len(Rows) >= 3
    /\ Rows[2].category # Rows[1].category
    /\ Rows[Len(Rows)].category = Rows[1].category
    /\ \E c \in CategoryEnum : \A i \in 1..Len(Rows) : Rows[i].category # c

\* The sum of nett_gp of the fetched rows of a quarter.
QuarterRowsTotal(quarter) ==
    SumSeq([i \in 1..Len(Rows) |-> IF Rows[i].quarter = quarter THEN Rows[i].nett_gp ELSE 0])

\* The fetched target record's target of a quarter, 0 without a record.
QuarterTargetOfRecord(quarter) ==
    IF targetData = <<>> THEN 0
    ELSE CASE quarter = "Q1" -> targetData[1].q1_target
           [] quarter = "Q2" -> targetData[1].q2_target
           [] quarter = "Q3" -> targetData[1].q3_target
           [] quarter = "Q4" -> targetData[1].q4_target

\* C24: after a successful project fetch quarterlyData has exactly four
\* entries labelled Q1, Q2, Q3, Q4 in that order; entry Qi carries the sum of
\* nett_gp of the rows whose quarter is exactly Qi and the target record's
\* qi_target, or 0 when there is no target record.
C24_FourQuartersInOrder ==
    DashboardLoaded =>
        /\ Len(stats.quarterlyData) = 4
        /\ \A i \in 1..4 :
              /\ stats.quarterlyData[i].quarter = QuarterLabels[i]
              /\ stats.quarterlyData[i].income = QuarterRowsTotal(QuarterLabels[i])
              /\ stats.quarterlyData[i].target = QuarterTargetOfRecord(QuarterLabels[i])

\* A target record with different quarter targets, a quarter with two rows
\* and a quarter without rows.
C24_Witness ==
    /\ DashboardLoaded
    /\ targetData # <<>>
    /\ targetData[1].q4_target > targetData[1].q1_target
    /\ \E i, j \in 1..Len(Rows) : i # j /\ Rows[i].quarter = Rows[j].quarter
    /\ \E k \in 1..4 :
          /\ stats.quarterlyData[k].income = 0
          /\ \A i \in 1..Len(Rows) : Rows[i].quarter # QuarterLabels[k]

\* Row i of table t is updated in the step.
RowUpdated(t, i) ==
    /\ i \in 1..Len(stamps[t])
    /\ Len(stamps'[t]) = Len(stamps[t])
    /\ stamps'[t][i].updates # stamps[t][i].updates

StampsInOrder ==
    \A t \in TableNames : \A i \in 1..Len(stamps[t]) :
        /\ stamps[t][i].created_at <= stamps[t][i].updated_at
        /\ stamps[t][i].updated_at <= now

\* C25: every update of a row of projects, targets or profiles sets the
\* row's updated_at to the time of the update; so updated_at never decreases
\* over a sequence of updates and is never older than created_at.
C25_UpdatedAtIsTimeOfUpdate ==
    /\ []StampsInOrder
    /\ [][\A t \in TableNames : \A i \in 1..MaxStampRows :
            RowUpdated(t, i) =>
                /\ stamps'[t][i].updated_at = now
                /\ stamps'[t][i].updated_at >= stamps[t][i].updated_at
                /\ stamps'[t][i].created_at = stamps[t][i].created_at]_vars

\* A row of each of two tables, one updated twice at different times after
\* its creation.
C25_Witness ==
    /\ \E i \in 1..Len(stamps["targets"]) :
          /\ stamps["targets"][i].updates = 2
          /\ stamps["targets"][i].created_at < stamps["targets"][i].updated_at
          /\ stamps["targets"][i].updated_at < now
    /\ stamps["profiles"] # <<>>

\* The grouping key of a row in each ranking.
NormalizedPic(p) == IF p.pic \in Falsy THEN "N/A" ELSE p.pic
NormalizedProduct(p) == IF p.product \in Falsy THEN "N/A" ELSE p.product

\* Whether key k1 occurs in the rows before key k2 does, keys[i] being the
\* grouping key of row i.
OccursFirst(keys, k1, k2) ==
    \E i \in 1..Len(keys) :
        /\ keys[i] = k1
        /\ \A j \in 1..i : keys[j] # k2

GroupTotal(keys, k) ==
    SumSeq([i \in 1..Len(Rows) |-> IF keys[i] = k THEN Rows[i].nett_gp ELSE 0])

\* In ranking r with entry keys names, of two groups with equal totals the
\* one met first in the rows comes first, and a group left out by the cut
\* was met after every kept group of the same total.
TiesByFirstOccurrence(names, r, keys) ==
    /\ \A i, j \in 1..Len(r) :
          (i < j /\ r[i].totalIncome = r[j].totalIncome)
             => OccursFirst(keys, names[i], names[j])
    /\ \A k \in SeqToSet(keys) : \A i \in 1..Len(r) :
          (k \notin SeqToSet(names) /\ GroupTotal(keys, k) = r[i].totalIncome)
             => OccursFirst(keys, names[i], k)

PicKeysOfRows == [i \in 1..Len(Rows) |-> NormalizedPic(Rows[i])]
StoredPicsOfRows == [i \in 1..Len(Rows) |-> Rows[i].pic]
ProductKeysOfRows == [i \in 1..Len(Rows) |-> NormalizedProduct(Rows[i])]

\* C26: when two groups of a ranking have equal totalIncome, the group whose
\* key occurs first in the fetched rows is ranked first, and it is the one
\* kept when the cut at 5 falls between them.
C26_TiesKeepInputOrder ==
    /\ DashboardLoaded =>
         /\ TiesByFirstOccurrence([i \in 1..Len(topPics) |-> topPics[i].pic],
                                  topPics, PicKeysOfRows)
         /\ TiesByFirstOccurrence([i \in 1..Len(topProducts) |-> topProducts[i].product],
                                  topProducts, ProductKeysOfRows)
    /\ TopPicsLoaded =>
         TiesByFirstOccurrence([i \in 1..Len(picRankings) |-> picRankings[i].pic],
                               picRankings, StoredPicsOfRows)
    /\ TopProductsLoaded =>
         TiesByFirstOccurrence(
             [i \in 1..Len(productRankings) |-> productRankings[i].product],
             productRankings, ProductKeysOfRows)

\* Six PIC groups, two of them tied inside the ranking and two tied at the
\* cut: the fifth entry and the group left out have the same total.
C26_Witness ==
    /\ DashboardLoaded
    /\ Len(topPics) = 5
    /\ \E i \in 1..4 : topPics[i].totalIncome = topPics[i + 1].totalIncome
    /\ \E k \in SeqToSet(PicKeysOfRows) :
          /\ \A i \in 1..5 : topPics[i].pic # k
          /\ GroupTotal(PicKeysOfRows, k) = topPics[5].totalIncome

\* The preview shows the rows parsed from the selected file, and no errors
\* are displayed with it.
PreviewIsOfSelectedFile ==
    preview # <<>> =>
        /\ errors = <<>>
        /\ file # <<>>
        /\ parseExcelFile(file[1]).success
        /\ parseExcelFile(file[1]).data = <<preview>>

\* C27: in ExcelUpload, under any interleaving of file selections and parse
\* completions, a non-empty preview implies that the error list is empty and
\* that the preview rows were parsed from the currently selected file; so
\* handleUpload never inserts rows of another file than the one selected,
\* nor rows while errors are displayed.
C27_PreviewMatchesSelectedFile ==
    /\ PreviewIsOfSelectedFile
    /\ uploadRequest # <<>> =>
          /\ errors = <<>>
          /\ file # <<>>
          /\ parseExcelFile(file[1]).success
          /\ uploadRequest[1] = UploadRows(parseExcelFile(file[1]).data[1])

\* The step is a call of Targets.handleSubmit that reached a store call.
SubmitStep ==
    /\ page = "Targets"
    /\ storeCall' # <<>>
    /\ UNCHANGED <<formData, existingTarget>>
    /\ toast' # toast \/ storeCall' # storeCall \/ targetsTable' # targetsTable

\* C28: in the Targets form, under any interleaving of year edits,
\* fetchTarget completions and submissions, handleSubmit writes only to the
\* target record of the year shown in the form: it updates an existing
\* record only if that record's year equals formData.year, and inserts
\* otherwise.
C28_SubmitWritesShownYear ==
    [][SubmitStep =>
          /\ storeCall'[1].year = parseInt(formData.year)
          /\ storeCall'[1].op = "update" <=>
                (existingTarget # <<>> /\ existingTarget[1].year = parseInt(formData.year))]_vars

\* C29: in the Targets form, once the user stops editing the year, the
\* fetch-on-year-change effect eventually quiesces: from some point on no
\* fetchTarget call is in flight (and so formData.year no longer changes),
\* whatever order the calls in flight return in.
C29_FetchingQuiesces ==
    (<>[][~Targets_yearEdit]_vars) => <>[](targetFetches = <<>>)

\* A backup holds the three tables as they are, the targets by year, and
\* counts their rows.
IsBackupOfTables(b) ==
    /\ b.projects = projectsTable
    /\ Len(b.targets) = Len(targetsTable)
    /\ SeqToSet(b.targets) = SeqToSet(targetsTable)
    /\ \A i \in 1..(Len(b.targets) - 1) : b.targets[i].year < b.targets[i + 1].year
    /\ b.profiles = profilesTable
    /\ b.metadata.totalRecords = Len(b.projects) + Len(b.targets) + Len(b.profiles)

\* backupDatabase has returned: null if a select failed, else a whole backup.
ReturnsAllOrNothing ==
    (backupCall # <<>> /\ backupCall[1].step = "returned") =>
        IF backupCall[1].failed
        THEN backupCall[1].result = <<>>
        ELSE backupCall[1].result # <<>> /\ IsBackupOfTables(backupCall[1].result[1])

TotalRecordsIsSum ==
    backupData # <<>> =>
        backupData[1].metadata.totalRecords =
            Len(backupData[1].projects) + Len(backupData[1].targets)
              + Len(backupData[1].profiles)

\* C30: backupDatabase is all-or-nothing: if any of the three selects returns
\* an error it returns null and never a partial backup; otherwise
\* metadata.totalRecords is projects.length + targets.length +
\* profiles.length; and the page leaves an earlier backupData unchanged when
\* a later backup fails.
C30_BackupIsAllOrNothing ==
    /\ [](ReturnsAllOrNothing /\ TotalRecordsIsSum)
    /\ [][(backupCall # <<>> /\ backupCall[1].step = "returned" /\ backupCall' = <<>>) =>
            IF backupCall[1].failed
            THEN backupData' = backupData /\ toast'[1].kind = "error"
            ELSE backupData' = backupCall[1].result]_vars

\* A backup of non-empty tables is kept while a later backup, of changed
\* tables, has failed at the third select.
C30_Witness ==
    /\ backupData # <<>>
    /\ backupData[1].metadata.totalRecords >= 4
    /\ backupData[1].profiles # profilesTable
    /\ backupCall = <<>>
    /\ toast # <<>> /\ toast[1].message = "Backup Failed"

=============================================================================
